---------------------------- MODULE Spec2Model ----------------------------
(***************************************************************************)
(* A model of brewfather-mcp: the bounded concurrent fetch helper          *)
(* (get_in_batches) with the four inventory summary callers, the           *)
(* BrewfatherClient facade over the HTTP transport, and the query          *)
(* parameter builder (ListQueryParams.as_query_param_str).                 *)
(*                                                                         *)
(* Python strings are modelled as sequences of tokens: concatenation is    *)
(* \o, the empty string is << >>, and None is the value None below.        *)
(***************************************************************************)
EXTENDS Integers, Sequences, FiniteSets, TLC

\* ------------------------------------------------------------------ bounds
\* Longest summary list handed to get_in_batches.
MaxLen == 7
\* Largest concurrencyLimit of a direct call of get_in_batches.
MaxLimit == 3
\* Number of facade calls made on one client.
MaxCalls == 2

\* ------------------------------------------------------------- vocabulary
None == "None"
\* "No exception" and "no record", as records so they compare with the others.
NoError == [kind |-> None, category |-> None, id |-> 0]
NoDetail == [category |-> None, id |-> 0]

\* types/inventory.py: InventoryCategory, a StrEnum of auto() members.
InventoryCategory == {"fermentables", "hops", "miscs", "yeasts"}

\* The failures a detail fetch can end in: raise_for_status (api.py:81) and
\* model_validate_json (api.py:132).
FetchErrorKinds == {"HTTPStatusError", "ValidationError"}

VARIABLES
    \* --- get_in_batches and its callers (inventory.py)
    caller,           \* which function awaits get_in_batches
    callerPc,         \* where that caller is
    concurrencyLimit, \* first argument of get_in_batches
    summaryList,      \* third argument: the ids of the summary records
    taskState,        \* per index: "queued", "running", "ok", "failed"
    permits,          \* free admission slots
    resultSlots,      \* per index: the detail fetched, or NoDetail
    hydrate,          \* outcome of get_in_batches
    refetch,          \* get_fermentables_summary's loop: index, in-flight flag
    rows,             \* the rows the caller has appended
    callerError,      \* the exception the caller raised, or None
    \* --- instrumentation of the detail-fetch operation (history only)
    firstFailure,     \* the first failure any detail fetch ended in, or None
    overtaken,        \* TRUE once a fetch completed before an earlier item's
    \* --- BrewfatherClient (api.py)
    env,              \* the environment variables the client reads
    client,           \* "unconstructed", "ok", or "raised" (__init__ failed)
    auth,             \* self.auth
    call,             \* the facade call in progress or last finished
    sent,             \* the HTTP requests the current call has issued
    nCalls,           \* facade calls made
    nRequests,        \* HTTP requests issued
    debugFiles,       \* files written under the debug directory
    \* --- a ListQueryParams object and what is built from it (api.py)
    queryParams,      \* the object's fields
    queryOut,         \* the query string and list URL built from it
    \* --- validation of a response body (types/*.py)
    validator,        \* the class whose model_validate_json ran, or None
    jsonData,         \* the JSON value it was given
    parsed,           \* its outcome: the record, or the validation errors
    instant,          \* what Timestamp.to_datetime returned, or NoInstant
    \* --- the tool handlers (server.py)
    tool,             \* the tool call in progress or last finished
    invoked,          \* the client operations and summaries awaited, in order
    logged,           \* the records logger.exception wrote, in order
    sections          \* inventory_summary: the lists gathered so far

hydrateVars == <<caller, callerPc, concurrencyLimit, summaryList, taskState,
                 permits, resultSlots, hydrate, refetch, rows, callerError,
                 firstFailure, overtaken>>

clientVars == <<env, client, auth, call, sent, nCalls, nRequests, debugFiles>>

queryVars == <<queryParams, queryOut>>

schemaVars == <<validator, jsonData, parsed, instant>>

serverVars == <<tool, invoked, logged, sections>>

vars == <<hydrateVars, clientVars, queryVars, schemaVars, serverVars>>

\* ---------------------------------------------------------------- strings
\* A Python str is a sequence of tokens; None is PyNone, which no str equals.
PyNone == <<"<None>">>
Truthy(s) == s # PyNone /\ s # << >>

\* str(x) as an f-string renders it: None renders as the text "None".
Format(s) == IF s = PyNone THEN <<"None">> ELSE s

\* ------------------------------------------------------------ JSON values
\* A JSON value: its type t, the text v of a scalar, the members o of an
\* object, the elements a of an array.
EmptyObject == [k \in {} |-> 0]
Json(t, v) == [t |-> t, v |-> v, o |-> EmptyObject, a |-> << >>]
JNull == Json("null", "")
JStr(v) == Json("string", v)
JInt(v) == Json("int", v)
JArr(a) == [t |-> "array", v |-> "", o |-> EmptyObject, a |-> a]
JObj(o) == [t |-> "object", v |-> "", o |-> o, a |-> << >>]

\* No body has been validated, and to_datetime has not been called.
NotParsed == [ok |-> FALSE, value |-> JNull, errors |-> {}]
NoInstant == [seconds |-> -1, microsecond |-> 0]

\* ------------------------------------------------- api.py: ListQueryParams
PyTrue == <<"True">>
PyFalse == <<"False">>
\* Truth of a bool | None field, of an int | None field, of a str | None field.
BoolTruthy(b) == b = PyTrue
IntTruthy(n) == n # PyNone /\ n # <<"0">>

\* OrderByDirection, a StrEnum: its members format as their values.
OrderByDirection == {<<"asc">>, <<"desc">>}

\* urllib.parse.quote_plus on the characters the model's strings hold.
QuotePlusToken(t) ==
    CASE t = " " -> "+"
      [] t = "&" -> "%26"
      [] t = "=" -> "%3D"
      [] t = "?" -> "%3F"
      [] t = "/" -> "%2F"
      [] OTHER -> t
quote_plus(str) == [i \in 1..Len(str) |-> QuotePlusToken(str[i])]

\* ListQueryParams(): every field is None until the caller assigns it.
DefaultQueryParams ==
    [passed |-> TRUE,
     inventory_negative |-> PyNone, complete |-> PyNone,
     inventory_exists |-> PyNone, limit |-> PyNone, start_after |-> PyNone,
     order_by |-> PyNone, order_by_direction |-> PyNone]

\* query_params=None: no object is passed to the list call.
NoQueryParams == [DefaultQueryParams EXCEPT !.passed = FALSE]

\* ListQueryParams.as_query_param_str: the segments appended to qs.
QuerySegments(self) ==
    LET qs0 == << >>
        qs1 == IF BoolTruthy(self.inventory_negative)
               THEN qs0 \o <<"inventory_negative", "=">> \o Format(self.inventory_negative)
               ELSE qs0
        qs2 == IF BoolTruthy(self.complete)
               THEN qs1 \o <<"complete", "=">> \o Format(self.complete)
               ELSE qs1
        qs3 == IF BoolTruthy(self.inventory_exists)
               THEN qs2 \o <<"inventory_exists", "=">> \o Format(self.inventory_exists)
               ELSE qs2
        qs4 == IF IntTruthy(self.limit)
               THEN qs3 \o <<"limit", "=">> \o Format(self.limit)
               ELSE qs3
        qs5 == IF Truthy(self.start_after)
               THEN qs4 \o <<"start_after", "=">> \o quote_plus(self.start_after)
               ELSE qs4
        qs6 == IF Truthy(self.order_by)
               THEN qs5 \o <<"order_by", "=">> \o quote_plus(self.order_by)
               ELSE qs5
        qs7 == IF Truthy(self.order_by_direction)
               THEN qs6 \o <<"order_by_direction", "=">> \o Format(self.order_by_direction)
               ELSE qs6
    IN  qs7

\* ListQueryParams.as_query_param_str: qs if it is not empty, else None.
as_query_param_str_unguarded(self) == QuerySegments(self)
as_query_param_str(self) ==
    LET qs == QuerySegments(self)
    IN  IF qs # << >> THEN qs ELSE PyNone

NotBuilt == [pc |-> "params", qs |-> PyNone, url |-> << >>]

\* ------------------------------------------------ api.py: BrewfatherClient
BASE_URL == <<"https://api.brewfather.app/v2">>

\* BrewfatherClient._build_url
_build_url(endpoint, id, query_params) ==
    LET url0 == BASE_URL \o <<"/">> \o endpoint
        url1 == IF Truthy(id) THEN url0 \o <<"/">> \o id ELSE url0
    IN  IF query_params.passed
        THEN url1 \o <<"?">> \o Format(as_query_param_str(query_params))
        ELSE url1

\* The endpoint of an inventory category: f"inventory/{InventoryCategory.X}".
InventoryEndpoint(cat) == <<"inventory", "/", cat>>

\* A request as handed to httpx; json is the encoded dict, a set of members.
JsonObject(dict) == {<<k, dict[k]>> : k \in DOMAIN dict}
Get(url, model) ==
    [method |-> "GET", url |-> url, hasJson |-> FALSE, json |-> {}, model |-> model]
Patch(url, data) ==
    [method |-> "PATCH", url |-> url, hasJson |-> TRUE, json |-> JsonObject(data),
     model |-> None]

\* The dict an inventory update sends: {"inventory": inventory}.
InventoryBodyMerged(inventory) ==
    [k \in {"inventory", "name"} |-> IF k = "inventory" THEN inventory ELSE "Pilsner"]
InventoryBody(inventory) == [k \in {"inventory"} |-> inventory]

get_fermentables_list(query_params) ==
    Get(_build_url(InventoryEndpoint("fermentables"), PyNone, query_params),
        "FermentableList")
get_fermentable_detail(id) ==
    Get(_build_url(InventoryEndpoint("fermentables"), id, NoQueryParams),
        "FermentableDetail")
update_fermentable_inventory(id, inventory) ==
    Patch(_build_url(InventoryEndpoint("fermentables"), id, NoQueryParams),
          InventoryBody(inventory))

get_batches_list(query_params) ==
    Get(_build_url(<<"batches">>, PyNone, query_params), "BatchList")
get_batch_detail(id) ==
    Get(_build_url(<<"batches">>, id, NoQueryParams), "BatchDetail")
update_batch_detail_merged(id, data) ==
    Patch(_build_url(<<"batches">>, id, NoQueryParams),
          [k \in DOMAIN data \cup {"_id"} |-> IF k \in DOMAIN data THEN data[k] ELSE "id"])
update_batch_detail(id, data) ==
    Patch(_build_url(<<"batches">>, id, NoQueryParams), data)

get_recipes_list(query_params) ==
    Get(_build_url(<<"recipes">>, PyNone, query_params), "RecipeList")
get_recipe_detail(id) ==
    Get(_build_url(<<"recipes">>, id, NoQueryParams), "RecipeDetail")

get_hops_list(query_params) ==
    Get(_build_url(InventoryEndpoint("hops"), PyNone, query_params), "HopList")
get_hop_detail(id) ==
    Get(_build_url(InventoryEndpoint("hops"), id, NoQueryParams), "HopDetail")
update_hop_inventory(id, inventory) ==
    Patch(_build_url(InventoryEndpoint("hops"), id, NoQueryParams),
          InventoryBody(inventory))

get_yeasts_list(query_params) ==
    Get(_build_url(InventoryEndpoint("yeasts"), PyNone, query_params), "YeastList")
get_yeast_detail(id) ==
    Get(_build_url(InventoryEndpoint("yeasts"), id, NoQueryParams), "YeastDetail")
update_yeast_inventory(id, inventory) ==
    Patch(_build_url(InventoryEndpoint("yeasts"), id, NoQueryParams),
          InventoryBody(inventory))

get_miscs_list(query_params) ==
    Get(_build_url(InventoryEndpoint("miscs"), PyNone, query_params), "MiscList")
get_misc_detail(id) ==
    Get(_build_url(InventoryEndpoint("miscs"), id, NoQueryParams), "MiscDetail")
update_misc_inventory(id, inventory) ==
    Patch(_build_url(InventoryEndpoint("miscs"), id, NoQueryParams),
          InventoryBody(inventory))

ListMethods == {"get_fermentables_list", "get_batches_list", "get_recipes_list",
                "get_hops_list", "get_yeasts_list", "get_miscs_list"}
DetailMethods == {"get_fermentable_detail", "get_batch_detail", "get_recipe_detail",
                  "get_hop_detail", "get_yeast_detail", "get_misc_detail"}
InventoryUpdateMethods == {"update_fermentable_inventory", "update_hop_inventory",
                           "update_yeast_inventory", "update_misc_inventory"}
BatchUpdateMethods == {"update_batch_detail"}
Methods == ListMethods \cup DetailMethods \cup InventoryUpdateMethods
             \cup BatchUpdateMethods

\* The category an inventory update method writes.
UpdateCategory(op) ==
    CASE op = "update_fermentable_inventory" -> "fermentables"
      [] op = "update_hop_inventory" -> "hops"
      [] op = "update_yeast_inventory" -> "yeasts"
      [] op = "update_misc_inventory" -> "miscs"

\* The request a facade method issues for its arguments.
RequestOf(op, id, query_params, inventory, data) ==
    CASE op = "get_fermentables_list" -> get_fermentables_list(query_params)
      [] op = "get_fermentable_detail" -> get_fermentable_detail(id)
      [] op = "update_fermentable_inventory" -> update_fermentable_inventory(id, inventory)
      [] op = "get_batches_list" -> get_batches_list(query_params)
      [] op = "get_batch_detail" -> get_batch_detail(id)
      [] op = "update_batch_detail" -> update_batch_detail(id, data)
      [] op = "get_recipes_list" -> get_recipes_list(query_params)
      [] op = "get_recipe_detail" -> get_recipe_detail(id)
      [] op = "get_hops_list" -> get_hops_list(query_params)
      [] op = "get_hop_detail" -> get_hop_detail(id)
      [] op = "update_hop_inventory" -> update_hop_inventory(id, inventory)
      [] op = "get_yeasts_list" -> get_yeasts_list(query_params)
      [] op = "get_yeast_detail" -> get_yeast_detail(id)
      [] op = "update_yeast_inventory" -> update_yeast_inventory(id, inventory)
      [] op = "get_miscs_list" -> get_miscs_list(query_params)
      [] op = "get_misc_detail" -> get_misc_detail(id)
      [] op = "update_misc_inventory" -> update_misc_inventory(id, inventory)

\* --------------------------------------- BrewfatherClient: state machine
\* Values os.getenv gives: None (unset), the empty string, a non-empty one.
EnvValues == {PyNone, << >>, <<"set">>}

\* What the upstream can answer.
Statuses == {200, 204, 302, 401, 404, 500}
Payloads == {"conforming", "malformed"}

\* Arguments of the facade calls.
Ids == {<< >>, <<"f1">>}
Amounts == {"12.5", "0.0"}
BatchData ==
    {[k \in {} |-> ""],
     [k \in {"status"} |-> "Completed"],
     [k \in {"status", "measuredFg"} |->
         IF k = "status" THEN "Completed" ELSE "1.010"]}
QueryChoices ==
    {NoQueryParams, DefaultQueryParams,
     [DefaultQueryParams EXCEPT !.inventory_exists = PyTrue, !.limit = <<"50">>]}

NoAuth == [user |-> PyNone, password |-> PyNone]
NoRecord == [model |-> None, url |-> << >>]
NoCallError == [kind |-> None, status |-> 0]
NoRequest == [method |-> None, url |-> << >>, hasJson |-> FALSE, json |-> {},
              model |-> None]
NoArgs == [id |-> PyNone, query_params |-> NoQueryParams, inventory |-> "0.0",
           data |-> << >>]
IdleCall == [op |-> None, args |-> NoArgs, pc |-> "idle", request |-> NoRequest,
             status |-> 0, result |-> NoRecord, error |-> NoCallError]

\* httpx.Response.is_success
IsSuccess(status) == status >= 200 /\ status <= 299
RaisesOnServerErrorOnly(status) == status >= 500
\* httpx.Response.raise_for_status raises unless the status is 2xx.
RaisesForStatus(status) == ~IsSuccess(status)

\* Whether __init__ rejects the credentials read from the environment.
OnlyUserChecked(user_id, api_key) == ~Truthy(user_id)
CredentialsMissing(user_id, api_key) == ~Truthy(user_id) \/ ~Truthy(api_key)

\* The debug file name _make_request derives from the URL.
RECURSIVE BeforeQuery(_)
BeforeQuery(str) ==
    IF str = << >> \/ Head(str) = "?" THEN << >>
    ELSE <<Head(str)>> \o BeforeQuery(Tail(str))
DebugFilename(url) ==
    LET path == BeforeQuery(SubSeq(url, Len(BASE_URL) + 2, Len(url)))
    IN  [i \in 1..Len(path) |->
            IF path[i] \in {"/", ":"} THEN "_" ELSE path[i]] \o <<".json">>

\* server.py: no tool has been called: no keyword arguments, no exception.
NoArguments == [p \in {} |-> PyNone]
NoToolError == [kind |-> None, of |-> None]
IdleTool ==
    [handler |-> None, id |-> PyNone, arguments |-> NoArguments,
     pc |-> "idle", result |-> << >>, error |-> NoToolError]

Init ==
    /\ tool = IdleTool
    /\ invoked = << >>
    /\ logged = << >>
    /\ sections = << >>
    /\ env \in [user_id : EnvValues, api_key : EnvValues, debug : {PyNone, <<"1">>}]
    /\ client = [state |-> "unconstructed", error |-> None]
    /\ auth = NoAuth
    /\ call = IdleCall
    /\ sent = << >>
    /\ nCalls = 0
    /\ nRequests = 0
    /\ debugFiles = {}
    \* no summary is being built
    /\ caller = "none"
    /\ callerPc = "idle"
    /\ concurrencyLimit = 1
    /\ summaryList = << >>
    /\ taskState = << >>
    /\ permits = 1
    /\ resultSlots = << >>
    /\ hydrate = [status |-> "pending", value |-> << >>, error |-> NoError]
    /\ refetch = [k |-> 1, inflight |-> FALSE]
    /\ rows = << >>
    /\ callerError = NoError
    /\ firstFailure = NoError
    /\ overtaken = FALSE
    \* no query is being built
    /\ queryParams = NoQueryParams
    /\ queryOut = NotBuilt
    /\ validator = None
    /\ jsonData = JNull
    /\ parsed = NotParsed
    /\ instant = NoInstant

\* BrewfatherClient.__init__
Construct ==
    /\ client.state = "unconstructed"
    /\ IF CredentialsMissing(env.user_id, env.api_key)
       THEN /\ client' = [state |-> "raised", error |-> "ValueError"]
            /\ auth' = auth
       ELSE /\ client' = [state |-> "ok", error |-> None]
            /\ auth' = [user |-> env.user_id, password |-> env.api_key]
    /\ UNCHANGED <<env, call, sent, nCalls, nRequests, debugFiles>>
    /\ UNCHANGED <<hydrateVars, queryVars, schemaVars, serverVars>>

\* The requests a facade method issues before it first suspends.
RetryOnce(request) == <<request, request>>
IssueOnce(request) == <<request>>

\* A facade method is called: it builds the URL and awaits the one request of
\* _make_request or _make_patch_request.
FacadeCall(op, id, query_params, inventory, data) ==
    /\ client.state = "ok"
    /\ call.pc # "awaiting"
    /\ nCalls < MaxCalls
    /\ LET request == RequestOf(op, id, query_params, inventory, data) IN
         /\ call' = [op |-> op,
                     args |-> [id |-> id, query_params |-> query_params,
                               inventory |-> inventory, data |-> data],
                     pc |-> "awaiting", request |-> request, status |-> 0,
                     result |-> NoRecord, error |-> NoCallError]
         /\ sent' = IssueOnce([request EXCEPT !.model = None])
         /\ nRequests' = nRequests + Len(sent')
    /\ nCalls' = nCalls + 1
    /\ UNCHANGED <<env, client, auth, debugFiles>>
    /\ UNCHANGED <<hydrateVars, queryVars, schemaVars, serverVars>>

\* get_*_list(query_params)
ListCall(op, query_params) ==
    FacadeCall(op, PyNone, query_params, "0.0", << >>)

\* get_*_detail(id)
DetailCall(op, id) ==
    FacadeCall(op, id, NoQueryParams, "0.0", << >>)

\* update_*_inventory(id, inventory)
InventoryUpdateCall(op, id, inventory) ==
    FacadeCall(op, id, NoQueryParams, inventory, << >>)

\* update_batch_detail(id, data)
BatchUpdateCall(id, data) ==
    FacadeCall("update_batch_detail", id, NoQueryParams, "0.0", data)

\* The upstream answers the awaited request: _make_request or
\* _make_patch_request resumes, then the facade method parses the text.
Respond(status, payload) ==
    /\ call.pc = "awaiting"
    /\ IF RaisesForStatus(status)
       THEN /\ call' = [call EXCEPT !.pc = "raised", !.status = status,
                          !.error = [kind |-> "HTTPStatusError", status |-> status]]
            /\ debugFiles' = debugFiles
       ELSE IF call.request.method = "PATCH"
       THEN /\ call' = [call EXCEPT !.pc = "returned", !.status = status]
            /\ debugFiles' = debugFiles
       ELSE /\ debugFiles' = IF Truthy(env.debug)
                             THEN debugFiles \cup {DebugFilename(call.request.url)}
                             ELSE debugFiles
            /\ IF payload = "conforming"
               THEN call' = [call EXCEPT !.pc = "returned", !.status = status,
                               !.result = [model |-> call.request.model,
                                           url |-> call.request.url]]
               ELSE call' = [call EXCEPT !.pc = "raised", !.status = status,
                               !.error = [kind |-> "ValidationError",
                                          status |-> status]]
    /\ UNCHANGED <<env, client, auth, sent, nCalls, nRequests>>
    /\ UNCHANGED <<hydrateVars, queryVars, schemaVars, serverVars>>

Next ==
    \/ Construct
    \/ \E op \in ListMethods, query_params \in QueryChoices :
         ListCall(op, query_params)
    \/ \E op \in DetailMethods, id \in Ids : DetailCall(op, id)
    \/ \E op \in InventoryUpdateMethods, id \in Ids, inventory \in Amounts :
         InventoryUpdateCall(op, id, inventory)
    \/ \E id \in Ids, data \in BatchData : BatchUpdateCall(id, data)
    \/ \E status \in Statuses, payload \in Payloads : Respond(status, payload)

\* The facade: construction, then calls answered by the upstream.
Spec == Init /\ [][Next]_vars

\* ---------------------------------------------------------------- records
\* The detail record built from the response to GET /inventory/<cat>/<id>.
Detail(cat, id) == [category |-> cat, id |-> id]

\* The exception a failed detail fetch of <id> raises; it carries the request.
FetchError(kind, cat, id) == [kind |-> kind, category |-> cat, id |-> id]

\* A summary list of n records; ids are unique and differ from positions.
RECURSIVE Descending(_)
Descending(n) == IF n = 0 THEN << >> ELSE <<n>> \o Descending(n - 1)

SummaryLists == {Descending(n) : n \in 0..MaxLen}

\* ---------------------------------------------------- inventory.py callers
SummaryCallers == InventoryCategory

\* The limit every summary caller passes to get_in_batches.
SummaryLimitOffByOne == 3 + 1
SummaryLimit == 3

\* The category whose detail operation a caller passes; a direct call of the
\* helper is modelled with the hop detail operation.
FetchCategory(c) == IF c \in SummaryCallers THEN c ELSE "hops"

\* ------------------------------------------------ get_in_batches (helper)
Indices == 1..Len(summaryList)

InFlight == {i \in Indices : taskState[i] = "running"}
Queued == {i \in Indices : taskState[i] = "queued"}

Min(S) == CHOOSE x \in S : \A y \in S : x <= y

\* The slot of the result list a task writes when it completes.
SlotOfReversed(i) == Len(summaryList) + 1 - i
SlotOf(i) == i

\* What a completion gives back to the admission control.
ReleaseOnSuccessOnly(ok) == IF ok THEN 1 ELSE 0
Release(ok) == 1

\* The error get_in_batches raises, given the outcome so far and a failure.
FailSwallowed(outcome, err) == outcome
LastErrorWins(outcome, err) == [status |-> "raised", value |-> << >>, error |-> err]
FailWith(outcome, err) ==
    IF outcome.status = "pending"
    THEN [status |-> "raised", value |-> << >>, error |-> err]
    ELSE outcome

\* The outcome after a success: the join happens once every slot is filled.
JoinWhenFilled(outcome, states, slots) ==
    IF outcome.status = "pending" /\ \A i \in DOMAIN states : states[i] = "ok"
    THEN [status |-> "returned", value |-> slots, error |-> NoError]
    ELSE outcome

Pending == [status |-> "pending", value |-> << >>, error |-> NoError]

HydrateInit ==
    /\ tool = IdleTool
    /\ invoked = << >>
    /\ logged = << >>
    /\ sections = << >>
    /\ caller \in SummaryCallers \cup {"direct"}
    /\ concurrencyLimit \in (IF caller \in SummaryCallers
                             THEN {SummaryLimit} ELSE 1..MaxLimit)
    /\ summaryList \in SummaryLists
    /\ taskState = [i \in 1..Len(summaryList) |-> "queued"]
    /\ permits = concurrencyLimit
    /\ resultSlots = [i \in 1..Len(summaryList) |-> NoDetail]
    /\ hydrate = JoinWhenFilled(Pending, taskState, resultSlots)
    /\ callerPc = "hydrate"
    /\ refetch = [k |-> 1, inflight |-> FALSE]
    /\ rows = << >>
    /\ callerError = NoError
    /\ firstFailure = NoError
    /\ overtaken = FALSE
    \* the callers hold a constructed client
    /\ env = [user_id |-> <<"set">>, api_key |-> <<"set">>, debug |-> PyNone]
    /\ client = [state |-> "ok", error |-> None]
    /\ auth = [user |-> <<"set">>, password |-> <<"set">>]
    /\ call = IdleCall
    /\ sent = << >>
    /\ nCalls = 0
    /\ nRequests = 0
    /\ debugFiles = {}
    \* no query is being built
    /\ queryParams = NoQueryParams
    /\ queryOut = NotBuilt
    /\ validator = None
    /\ jsonData = JNull
    /\ parsed = NotParsed
    /\ instant = NoInstant

\* A queued item is admitted when a slot is free, in list order.
StartFetch ==
    /\ Queued # {}
    /\ permits > 0
    /\ LET i == Min(Queued) IN
         taskState' = [taskState EXCEPT ![i] = "running"]
    /\ permits' = permits - 1
    /\ UNCHANGED <<caller, callerPc, concurrencyLimit, summaryList,
                   resultSlots, hydrate, refetch, rows, callerError,
                   firstFailure, overtaken>>
    /\ UNCHANGED <<clientVars, queryVars, schemaVars, serverVars>>

\* The detail fetch of item i succeeds.
CompleteFetchOk(i) ==
    /\ i \in InFlight
    /\ taskState' = [taskState EXCEPT ![i] = "ok"]
    /\ permits' = permits + Release(TRUE)
    /\ resultSlots' = [resultSlots EXCEPT
                         ![SlotOf(i)] = Detail(FetchCategory(caller), summaryList[i])]
    /\ hydrate' = JoinWhenFilled(hydrate, taskState', resultSlots')
    /\ overtaken' = (overtaken \/ \E j \in InFlight : j < i)
    /\ UNCHANGED <<caller, callerPc, concurrencyLimit, summaryList,
                   refetch, rows, callerError, firstFailure>>
    /\ UNCHANGED <<clientVars, queryVars, schemaVars, serverVars>>

\* The detail fetch of item i fails.
CompleteFetchFail(i, kind) ==
    /\ i \in InFlight
    /\ taskState' = [taskState EXCEPT ![i] = "failed"]
    /\ permits' = permits + Release(FALSE)
    /\ hydrate' = FailWith(hydrate,
                     FetchError(kind, FetchCategory(caller), summaryList[i]))
    /\ firstFailure' = IF firstFailure = NoError
                       THEN FetchError(kind, FetchCategory(caller), summaryList[i])
                       ELSE firstFailure
    /\ overtaken' = (overtaken \/ \E j \in InFlight : j < i)
    /\ UNCHANGED <<caller, callerPc, concurrencyLimit, summaryList,
                   resultSlots, refetch, rows, callerError>>
    /\ UNCHANGED <<clientVars, queryVars, schemaVars, serverVars>>

\* ------------------------------------------- the callers, after the helper
\* One row of a summary: the name is read from the summary record, the
\* inventory fields from the detail record paired with it.
Row(summaryId, detail) == [name |-> summaryId, detail |-> detail]

\* zip(summary.root, detail_results, strict=True) at loop index k.
ZipAt(k, details) ==
    IF k <= Len(summaryList) /\ k <= Len(details) THEN "pair"
    ELSE IF k > Len(summaryList) /\ k > Len(details) THEN "stop"
    ELSE "ValueError"

\* get_in_batches raised: the exception leaves the awaiting caller as it is.
SummaryPropagate ==
    /\ callerPc = "hydrate"
    /\ hydrate.status = "raised"
    /\ callerPc' = "raised"
    /\ callerError' = hydrate.error
    /\ UNCHANGED <<caller, concurrencyLimit, summaryList, taskState, permits,
                   resultSlots, hydrate, refetch, rows,
                   firstFailure, overtaken>>
    /\ UNCHANGED <<clientVars, queryVars, schemaVars, serverVars>>

\* get_hops_summary, get_yeast_summary, get_miscs_summary: the loop over the
\* zipped pairs has no suspension point.
SummaryBuild ==
    /\ caller \in SummaryCallers \ {"fermentables"}
    /\ callerPc = "hydrate"
    /\ hydrate.status = "returned"
    /\ IF Len(hydrate.value) = Len(summaryList)
       THEN /\ rows' = [i \in 1..Len(summaryList) |->
                          Row(summaryList[i], hydrate.value[i])]
            /\ callerPc' = "done"
            /\ callerError' = NoError
       ELSE /\ rows' = [i \in 1..Min({Len(summaryList), Len(hydrate.value)}) |->
                          Row(summaryList[i], hydrate.value[i])]
            /\ callerPc' = "raised"
            /\ callerError' = [kind |-> "ValueError", category |-> caller, id |-> 0]
    /\ UNCHANGED <<caller, concurrencyLimit, summaryList, taskState, permits,
                   resultSlots, hydrate, refetch,
                   firstFailure, overtaken>>
    /\ UNCHANGED <<clientVars, queryVars, schemaVars, serverVars>>

\* A direct call of the helper: the awaiting code gets the list.
DirectReturn ==
    /\ caller = "direct"
    /\ callerPc = "hydrate"
    /\ hydrate.status = "returned"
    /\ callerPc' = "done"
    /\ UNCHANGED <<caller, concurrencyLimit, summaryList, taskState, permits,
                   resultSlots, hydrate, refetch, rows, callerError,
                   firstFailure, overtaken>>
    /\ UNCHANGED <<clientVars, queryVars, schemaVars, serverVars>>

\* get_fermentables_summary: each iteration of the loop awaits
\* get_fermentable_detail(f_data.id) again and uses that record for the row.
FermentablesLoop ==
    /\ caller = "fermentables"
    /\ callerPc \in {"hydrate", "loop"}
    /\ hydrate.status = "returned"
    /\ ~refetch.inflight
    /\ LET z == ZipAt(refetch.k, hydrate.value) IN
         /\ callerPc' = CASE z = "pair" -> "loop"
                          [] z = "stop" -> "done"
                          [] OTHER -> "raised"
         /\ refetch' = [refetch EXCEPT !.inflight = (z = "pair")]
         /\ callerError' = IF z = "ValueError"
                           THEN [kind |-> "ValueError", category |-> caller, id |-> 0]
                           ELSE NoError
    /\ UNCHANGED <<caller, concurrencyLimit, summaryList, taskState, permits,
                   resultSlots, hydrate, rows,
                   firstFailure, overtaken>>
    /\ UNCHANGED <<clientVars, queryVars, schemaVars, serverVars>>

FermentablesRefetchOk ==
    /\ callerPc = "loop"
    /\ refetch.inflight
    /\ rows' = Append(rows, Row(summaryList[refetch.k],
                                Detail("fermentables", summaryList[refetch.k])))
    /\ refetch' = [k |-> refetch.k + 1, inflight |-> FALSE]
    /\ UNCHANGED <<caller, callerPc, concurrencyLimit, summaryList, taskState,
                   permits, resultSlots, hydrate, callerError,
                   firstFailure, overtaken>>
    /\ UNCHANGED <<clientVars, queryVars, schemaVars, serverVars>>

FermentablesRefetchFail(kind) ==
    /\ callerPc = "loop"
    /\ refetch.inflight
    /\ refetch' = [refetch EXCEPT !.inflight = FALSE]
    /\ callerPc' = "raised"
    /\ callerError' = FetchError(kind, "fermentables", summaryList[refetch.k])
    /\ UNCHANGED <<caller, concurrencyLimit, summaryList, taskState, permits,
                   resultSlots, hydrate, rows,
                   firstFailure, overtaken>>
    /\ UNCHANGED <<clientVars, queryVars, schemaVars, serverVars>>

HydrateNext ==
    \/ StartFetch
    \/ \E i \in Indices : CompleteFetchOk(i)
    \/ \E i \in Indices, kind \in FetchErrorKinds : CompleteFetchFail(i, kind)
    \/ SummaryPropagate
    \/ SummaryBuild
    \/ DirectReturn
    \/ FermentablesLoop
    \/ FermentablesRefetchOk
    \/ \E kind \in FetchErrorKinds : FermentablesRefetchFail(kind)


\* ------------------------------------- building a query string and a URL
\* The values a caller can assign to each field of a ListQueryParams.
FlagValues == {PyNone, PyTrue, PyFalse}
LimitValues == {PyNone, <<"0">>, <<"50">>}
TextValues == {PyNone, << >>, <<"a", "&", "b">>}
DirectionValues == {PyNone} \cup OrderByDirection
FieldValues ==
    [inventory_negative |-> FlagValues, complete |-> FlagValues,
     inventory_exists |-> FlagValues, limit |-> LimitValues,
     start_after |-> TextValues, order_by |-> TextValues,
     order_by_direction |-> DirectionValues]
Fields == DOMAIN FieldValues

\* params = ListQueryParams(), on a constructed client with no call made.
QueryInit ==
    /\ tool = IdleTool
    /\ invoked = << >>
    /\ logged = << >>
    /\ sections = << >>
    /\ queryParams = DefaultQueryParams
    /\ queryOut = NotBuilt
    /\ env = [user_id |-> <<"set">>, api_key |-> <<"set">>, debug |-> PyNone]
    /\ client = [state |-> "ok", error |-> None]
    /\ auth = [user |-> <<"set">>, password |-> <<"set">>]
    /\ call = IdleCall
    /\ sent = << >>
    /\ nCalls = 0
    /\ nRequests = 0
    /\ debugFiles = {}
    /\ caller = "none"
    /\ callerPc = "idle"
    /\ concurrencyLimit = 1
    /\ summaryList = << >>
    /\ taskState = << >>
    /\ permits = 1
    /\ resultSlots = << >>
    /\ hydrate = Pending
    /\ refetch = [k |-> 1, inflight |-> FALSE]
    /\ rows = << >>
    /\ callerError = NoError
    /\ firstFailure = NoError
    /\ overtaken = FALSE
    /\ validator = None
    /\ jsonData = JNull
    /\ parsed = NotParsed
    /\ instant = NoInstant

\* params.<field> = value, as the handlers do before a list call.
QueryAssign(field, value) ==
    /\ queryOut.pc = "params"
    /\ queryParams' = [queryParams EXCEPT ![field] = value]
    /\ UNCHANGED <<queryOut, hydrateVars, clientVars, schemaVars,
                   serverVars>>

\* A list call builds its URL from the object: as_query_param_str within
\* _build_url, for the endpoint of the call.
QueryBuild(endpoint) ==
    /\ queryOut.pc = "params"
    /\ queryOut' = [pc |-> "built",
                    qs |-> as_query_param_str(queryParams),
                    url |-> _build_url(endpoint, PyNone, queryParams)]
    /\ UNCHANGED <<queryParams, hydrateVars, clientVars, schemaVars,
                   serverVars>>

QueryNext ==
    \/ \E field \in Fields : \E value \in FieldValues[field] :
         QueryAssign(field, value)
    \/ \E endpoint \in {<<"batches">>, InventoryEndpoint("hops")} :
         QueryBuild(endpoint)

\* The query parameter builder and the URL assembly of a list call.
SpecQuery == QueryInit /\ [][QueryNext]_vars

\* The helper and its callers on a constructed client.
SpecHydrate == HydrateInit /\ [][HydrateNext]_vars

\* ------------------------------------------------- types/*.py: the models
\* What a field is given when the payload has no key for it: nothing (the
\* field is required), or the default of its declaration.
Required == [has |-> FALSE, value |-> JNull]
DefaultOfNone(value) == [has |-> TRUE, value |-> JNull]
Default(value) == [has |-> TRUE, value |-> value]

\* name: annotation = Field(alias=..., default=...). The alias is the key of
\* the field in the payload as a path: <<"_id">>, the name itself for a field
\* declared without one, <<"recipe", "name">> for an AliasPath. The
\* annotation is the sequence of its alternatives in the order the source
\* writes them, X | None being << X, <<"none">> >>: <<"str">>, <<"int">>,
\* <<"float">>, <<"bool">>, <<"datetime">>, <<"dict">>, <<"enum", E>> for a
\* StrEnum E, <<"model", M>> for a model M, and <<"list", X>> for a list of
\* strings ("str"), of dicts ("dict") or of a model.
Field(name, alias, types, default) ==
    [name |-> name, alias |-> alias, types |-> types, default |-> default]

\* The union of two functions, f deciding where both are defined.
Merge(f, g) ==
    [k \in DOMAIN f \cup DOMAIN g |-> IF k \in DOMAIN f THEN f[k] ELSE g[k]]

\* class name(bases...): what the class itself declares: its bases by name
\* in the order written, its model_config (ConfigDict(populate_by_name=True)
\* or none), its fields by name, and its field validators (field name ->
\* validator).
Class(name, bases, populate_by_name, own, validators) ==
    [name |-> name,
     bases |-> bases,
     model_config |-> IF populate_by_name THEN [populate_by_name |-> TRUE]
                      ELSE EmptyObject,
     fields |-> [n \in {a.name : a \in own} |-> CHOOSE a \in own : a.name = n],
     before |-> validators]

\* types/base.py: its StrEnum classes (the values of their members), its
\* models and its list classes, under their names.
types_base ==
    [enums |->
         \* class CarbonationType(StrEnum)
        [CarbonationType |-> {"Sugar", "Keg (Force)", "CO2 Tabs"},
         \* class FgFormula(StrEnum)
         FgFormula |-> {"normal", "adv"},
         \* class IbuFormula(StrEnum)
         IbuFormula |-> {"tinseth", "rager"},
         \* class MashStepType(StrEnum)
         MashStepType |-> {"Infusion", "Temperature", "Decoction"},
         \* class FermentationStepType(StrEnum)
         FermentationStepType |-> {"Primary", "Secondary", "Conditioning"}],
     models |->
         \* class Timestamp(BaseModel)
        [Timestamp |->
             Class("Timestamp", <<>>, FALSE,
                   {Field("seconds", <<"_seconds">>, << <<"int">> >>, Required),
                    Field("nanoseconds", <<"_nanoseconds">>, << <<"int">> >>, Required)},
                   EmptyObject),
         \* class VersionedModel(BaseModel)
         VersionedModel |->
             Class("VersionedModel", <<>>, FALSE,
                   {Field("version", <<"_version">>, << <<"str">> >>, Required),
                    Field("created", <<"_created">>, << <<"model", "Timestamp">> >>, Required),
                    Field("timestamp", <<"_timestamp">>, << <<"model", "Timestamp">> >>, Required),
                    Field("timestamp_ms", <<"_timestamp_ms">>, << <<"int">> >>, Required),
                    Field("rev", <<"_rev">>, << <<"str">> >>, Required)},
                   EmptyObject),
         \* class MashStep(BaseModel)
         MashStep |->
             Class("MashStep", <<>>, FALSE,
                   {Field("name", <<"name">>, << <<"str">>, <<"none">> >>, Default(JNull)),
                    Field("type", <<"type">>, << <<"enum", "MashStepType">> >>, Required),
                    Field("step_temp", <<"stepTemp">>, << <<"float">> >>, Required),
                    Field("step_time", <<"stepTime">>, << <<"int">> >>, Required),
                    Field("ramp_time", <<"rampTime">>, << <<"int">>, <<"none">> >>, Default(JNull)),
                    Field("infuse_temp", <<"infuseTemp">>, << <<"float">>, <<"none">> >>, Default(JNull)),
                    Field("infuse_amount", <<"infuseAmount">>, << <<"float">>, <<"none">> >>, Default(JNull)),
                    Field("display_step_temp", <<"displayStepTemp">>, << <<"float">>, <<"none">> >>, Default(JNull))},
                   EmptyObject),
         \* class MashSchedule(BaseModel)
         MashSchedule |->
             Class("MashSchedule", <<>>, FALSE,
                   {Field("name", <<"name">>, << <<"str">> >>, Required),
                    Field("steps", <<"steps">>, << <<"list", "MashStep">> >>, Required)},
                   EmptyObject),
         \* class BoilStep(BaseModel)
         BoilStep |->
             Class("BoilStep", <<>>, FALSE,
                   {Field("name", <<"name">>, << <<"str">> >>, Required),
                    Field("time", <<"time">>, << <<"int">> >>, Required)},
                   EmptyObject),
         \* class EquipmentProfile(BaseModel)
         EquipmentProfile |->
             Class("EquipmentProfile", <<>>, FALSE,
                   {Field("name", <<"name">>, << <<"str">> >>, Required)},
                   EmptyObject),
         \* class EquipmentProfileDetail(EquipmentProfile)
         EquipmentProfileDetail |->
             Class("EquipmentProfileDetail", <<"EquipmentProfile">>, TRUE,
                   {Field("name", <<"name">>, << <<"str">> >>, Required),
                    Field("batch_size", <<"batchSize">>, << <<"float">> >>, Required),
                    Field("efficiency", <<"efficiency">>, << <<"float">> >>, Required),
                    Field("mash_efficiency", <<"mashEfficiency">>, << <<"float">> >>, Required),
                    Field("boil_size", <<"boilSize">>, << <<"float">> >>, Required),
                    Field("boil_time", <<"boilTime">>, << <<"int">> >>, Required),
                    Field("bottling_volume", <<"bottlingVolume">>, << <<"float">> >>, Required),
                    Field("fermenter_volume", <<"fermenterVolume">>, << <<"float">> >>, Required),
                    Field("trub_chiller_loss", <<"trubChillerLoss">>, << <<"float">> >>, Required),
                    Field("post_boil_kettle_vol", <<"postBoilKettleVol">>, << <<"float">> >>, Required),
                    Field("boil_off_per_hr", <<"boilOffPerHr">>, << <<"float">> >>, Required),
                    Field("mash_tun_dead_space", <<"mashTunDeadSpace">>, << <<"float">> >>, Required),
                    Field("mash_water_max", <<"mashWaterMax">>, << <<"float">> >>, Required),
                    Field("mash_water_volume_limit_enabled", <<"mashWaterVolumeLimitEnabled">>, << <<"bool">> >>, Required),
                    Field("sparge_temperature", <<"spargeTemperature">>, << <<"float">> >>, Required),
                    Field("grain_temperature", <<"grainTemperature">>, << <<"float">> >>, Required),
                    Field("ambient_temperature", <<"ambientTemperature">>, << <<"float">> >>, Required),
                    Field("efficiency_type", <<"efficiencyType">>, << <<"str">> >>, Required),
                    Field("calc_mash_efficiency", <<"calcMashEfficiency">>, << <<"bool">> >>, Required),
                    Field("evaporation_rate", <<"evaporationRate">>, << <<"float">> >>, Required),
                    Field("hop_utilization", <<"hopUtilization">>, << <<"float">> >>, Required),
                    Field("calc_aroma_hop_utilization", <<"calcAromaHopUtilization">>, << <<"bool">> >>, Required),
                    Field("aroma_hop_utilization", <<"aromaHopUtilization">>, << <<"float">> >>, Required),
                    Field("hopstand_temperature", <<"hopstandTemperature">>, << <<"float">> >>, Required),
                    Field("fermenter_loss", <<"fermenterLoss">>, << <<"float">>, <<"none">> >>, Default(JNull)),
                    Field("fermenter_loss_estimate", <<"fermenterLossEstimate">>, << <<"float">> >>, Required),
                    Field("calc_boil_volume", <<"calcBoilVolume">>, << <<"bool">> >>, Required),
                    Field("mash_water_formula", <<"mashWaterFormula">>, << <<"str">>, <<"none">> >>, Default(JNull)),
                    Field("sparge_water_formula", <<"spargeWaterFormula">>, << <<"str">>, <<"none">> >>, Default(JNull))},
                   EmptyObject),
         \* class FermentationStep(BaseModel)
         FermentationStep |->
             Class("FermentationStep", <<>>, FALSE,
                   {Field("type", <<"type">>, << <<"enum", "FermentationStepType">> >>, Required),
                    Field("step_temp", <<"stepTemp">>, << <<"float">> >>, Required),
                    Field("step_time", <<"stepTime">>, << <<"int">> >>, Required),
                    Field("actual_time", <<"actualTime">>, << <<"int">>, <<"none">> >>, Default(JNull)),
                    Field("display_step_temp", <<"displayStepTemp">>, << <<"float">>, <<"none">> >>, Default(JNull)),
                    Field("display_pressure", <<"displayPressure">>, << <<"float">>, <<"none">> >>, Default(JNull)),
                    Field("pressure", <<"pressure">>, << <<"float">>, <<"none">> >>, Default(JNull)),
                    Field("ramp", <<"ramp">>, << <<"float">>, <<"none">> >>, Default(JNull))},
                   EmptyObject),
         \* class FermentationSchedule(BaseModel)
         FermentationSchedule |->
             Class("FermentationSchedule", <<>>, TRUE,
                   {Field("name", <<"name">>, << <<"str">> >>, Required),
                    Field("steps", <<"steps">>, << <<"list", "FermentationStep">> >>, Required)},
                   EmptyObject),
         \* class WaterProfile(BaseModel)
         WaterProfile |->
             Class("WaterProfile", <<>>, FALSE,
                   {Field("name", <<"name">>, << <<"str">> >>, Required),
                    Field("type", <<"type">>, << <<"str">> >>, Default(JStr("source"))),
                    Field("calcium", <<"calcium">>, << <<"float">> >>, Required),
                    Field("magnesium", <<"magnesium">>, << <<"float">> >>, Required),
                    Field("sodium", <<"sodium">>, << <<"float">> >>, Required),
                    Field("chloride", <<"chloride">>, << <<"float">> >>, Required),
                    Field("sulfate", <<"sulfate">>, << <<"float">> >>, Required),
                    Field("bicarbonate", <<"bicarbonate">>, << <<"float">> >>, Required),
                    Field("ph", <<"ph">>, << <<"float">> >>, Required),
                    Field("hardness", <<"hardness">>, << <<"float">> >>, Required),
                    Field("alkalinity", <<"alkalinity">>, << <<"float">> >>, Required),
                    Field("residual_alkalinity", <<"residualAlkalinity">>, << <<"float">> >>, Required)},
                   EmptyObject),
         \* class WaterAdjustment(BaseModel)
         WaterAdjustment |->
             Class("WaterAdjustment", <<>>, FALSE,
                   {Field("calcium", <<"calcium">>, << <<"float">> >>, Default(JInt("0"))),
                    Field("magnesium", <<"magnesium">>, << <<"float">> >>, Default(JInt("0"))),
                    Field("sodium", <<"sodium">>, << <<"float">> >>, Default(JInt("0"))),
                    Field("chloride", <<"chloride">>, << <<"float">> >>, Default(JInt("0"))),
                    Field("sulfate", <<"sulfate">>, << <<"float">> >>, Default(JInt("0"))),
                    Field("bicarbonate", <<"bicarbonate">>, << <<"float">> >>, Default(JInt("0"))),
                    Field("volume", <<"volume">>, << <<"float">> >>, Required),
                    Field("calcium_chloride", <<"calciumChloride">>, << <<"float">>, <<"none">> >>, Default(JNull)),
                    Field("calcium_sulfate", <<"calciumSulfate">>, << <<"float">>, <<"none">> >>, Default(JNull)),
                    Field("magnesium_sulfate", <<"magnesiumSulfate">>, << <<"float">>, <<"none">> >>, Default(JNull)),
                    Field("sodium_chloride", <<"sodiumChloride">>, << <<"float">>, <<"none">> >>, Default(JNull)),
                    Field("sodium_bicarbonate", <<"sodiumBicarbonate">>, << <<"float">>, <<"none">> >>, Default(JNull))},
                   EmptyObject),
         \* class WaterSettings(BaseModel)
         WaterSettings |->
             Class("WaterSettings", <<>>, TRUE,
                   {Field("source", <<"source">>, << <<"model", "WaterProfile">> >>, Required),
                    Field("mash", <<"mash">>, << <<"model", "WaterProfile">> >>, Required),
                    Field("sparge", <<"sparge">>, << <<"model", "WaterProfile">> >>, Required),
                    Field("total", <<"total">>, << <<"model", "WaterProfile">> >>, Required),
                    Field("mash_adjustments", <<"mashAdjustments">>, << <<"model", "WaterAdjustment">> >>, Required),
                    Field("sparge_adjustments", <<"spargeAdjustments">>, << <<"model", "WaterAdjustment">> >>, Required),
                    Field("total_adjustments", <<"totalAdjustments">>, << <<"model", "WaterAdjustment">> >>, Required),
                    Field("enable_sparge_adjustments", <<"enableSpargeAdjustments">>, << <<"bool">> >>, Required),
                    Field("mash_ph", <<"mashPh">>, << <<"float">> >>, Required),
                    Field("acid_ph_adjustment", <<"acidPhAdjustment">>, << <<"float">> >>, Required),
                    Field("sparge_acid_ph_adjustment", <<"spargeAcidPhAdjustment">>, << <<"float">> >>, Required)},
                   EmptyObject)],
     lists |-> EmptyObject]

\* types/inventory.py: its StrEnum classes (the values of their members), its
\* models and its list classes, under their names.
types_inventory ==
    [enums |->
         \* class InventoryCategory(StrEnum)
        [InventoryCategory |-> InventoryCategory],
     models |->
         \* class InventoryItem(BaseModel)
        [InventoryItem |->
             Class("InventoryItem", <<>>, FALSE,
                   {Field("id", <<"_id">>, << <<"str">>, <<"none">> >>, Required),
                    Field("inventory", <<"inventory">>, << <<"float">>, <<"none">> >>, Default(JNull))},
                   EmptyObject)],
     lists |-> EmptyObject]

\* types/fermentable.py: its StrEnum classes (the values of their members), its
\* models and its list classes, under their names.
types_fermentable ==
    [enums |-> EmptyObject,
     models |->
         \* class FermentableBase(InventoryItem)
        [FermentableBase |->
             Class("FermentableBase", <<"InventoryItem">>, TRUE,
                   {Field("name", <<"name">>, << <<"str">> >>, Required),
                    Field("type", <<"type">>, << <<"str">> >>, Required),
                    Field("supplier", <<"supplier">>, << <<"str">> >>, Required),
                    Field("attenuation", <<"attenuation">>, << <<"float">>, <<"none">> >>, Default(JNull))},
                   EmptyObject),
         \* class FermentableDetail(FermentableBase, VersionedModel)
         FermentableDetail |->
             Class("FermentableDetail", <<"FermentableBase", "VersionedModel">>, FALSE,
                   {Field("color", <<"color">>, << <<"float">> >>, Required),
                    Field("potential", <<"potential">>, << <<"float">> >>, Required),
                    Field("potential_percentage", <<"potentialPercentage">>, << <<"float">> >>, Required),
                    Field("grain_category", <<"grainCategory">>, << <<"str">>, <<"none">> >>, Default(JNull)),
                    Field("origin", <<"origin">>, << <<"str">>, <<"none">> >>, Default(JNull)),
                    Field("notes", <<"notes">>, << <<"str">>, <<"none">> >>, Default(JNull)),
                    Field("ibu_per_amount", <<"ibuPerAmount">>, << <<"float">>, <<"none">> >>, Default(JNull)),
                    Field("max_in_batch", <<"maxInBatch">>, << <<"float">>, <<"none">> >>, Default(JNull)),
                    Field("not_fermentable", <<"notFermentable">>, << <<"bool">>, <<"none">> >>, Default(JNull)),
                    Field("acid", <<"acid">>, << <<"float">>, <<"none">> >>, Default(JNull)),
                    Field("cgdb", <<"cgdb">>, << <<"float">>, <<"none">> >>, Default(JNull)),
                    Field("coarse_fine_diff", <<"coarseFineDiff">>, << <<"float">>, <<"none">> >>, Default(JNull)),
                    Field("fan", <<"fan">>, << <<"float">>, <<"none">> >>, Default(JNull)),
                    Field("fgdb", <<"fgdb">>, << <<"float">>, <<"none">> >>, Default(JNull)),
                    Field("friability", <<"friability">>, << <<"float">>, <<"none">> >>, Default(JNull)),
                    Field("moisture", <<"moisture">>, << <<"float">>, <<"none">> >>, Default(JNull)),
                    Field("protein", <<"protein">>, << <<"float">>, <<"none">> >>, Default(JNull)),
                    Field("diastatic_power", <<"diastaticPower">>, << <<"float">>, <<"none">> >>, Default(JNull)),
                    Field("substitutes", <<"substitutes">>, << <<"str">> >>, Default(JStr(""))),
                    Field("used_in", <<"usedIn">>, << <<"str">> >>, Default(JStr(""))),
                    Field("user_notes", <<"userNotes">>, << <<"str">> >>, Default(JStr(""))),
                    Field("best_before_date", <<"bestBeforeDate">>, << <<"str">>, <<"none">> >>, Default(JNull)),
                    Field("manufacturing_date", <<"manufacturingDate">>, << <<"str">>, <<"none">> >>, Default(JNull)),
                    Field("hidden", <<"hidden">>, << <<"bool">> >>, Default(Json("bool", "false"))),
                    Field("lovibond", <<"lovibond">>, << <<"float">>, <<"none">> >>, Default(JNull)),
                    Field("cost_per_amount", <<"costPerAmount">>, << <<"float">>, <<"none">> >>, Default(JNull))},
                   [f \in {"manufacturing_date", "best_before_date"} |->
                      "FermentableDetail.convert_timestamp_to_isodate"]),
         \* class RecipeFermentable(FermentableDetail)
         RecipeFermentable |->
             Class("RecipeFermentable", <<"FermentableDetail">>, TRUE,
                   {Field("amount", <<"amount">>, << <<"float">> >>, Required),
                    Field("percentage", <<"percentage">>, << <<"float">>, <<"none">> >>, Default(JNull)),
                    Field("add_after_boil", <<"addAfterBoil">>, << <<"bool">> >>, Default(Json("bool", "false")))},
                   EmptyObject),
         \* class BatchFermentable(RecipeFermentable)
         BatchFermentable |->
             Class("BatchFermentable", <<"RecipeFermentable">>, TRUE,
                   {Field("checked", <<"checked">>, << <<"bool">> >>, Default(Json("bool", "false"))),
                    Field("not_in_recipe", <<"notInRecipe">>, << <<"bool">> >>, Default(Json("bool", "false"))),
                    Field("removed_from_inventory", <<"removedFromInventory">>, << <<"bool">> >>, Default(Json("bool", "false"))),
                    Field("removed_amount", <<"removedAmount">>, << <<"float">> >>, Default(Json("float", "0.0"))),
                    Field("total_cost", <<"totalCost">>, << <<"float">> >>, Default(Json("float", "0.0"))),
                    Field("display_amount", <<"displayAmount">>, << <<"float">> >>, Default(Json("float", "0.0")))},
                   EmptyObject)],
     lists |->
         \* class FermentableList(RootModel[list[FermentableBase]])
        [FermentableList |-> "FermentableBase"]]

\* types/hop.py: its StrEnum classes (the values of their members), its
\* models and its list classes, under their names.
types_hop ==
    [enums |->
         \* class HopUse(StrEnum)
        [HopUse |-> {"Boil", "Dry Hop", "Aroma", "First Wort", "Hopstand"}],
     models |->
         \* class HopBase(BaseModel)
        [HopBase |->
             Class("HopBase", <<>>, TRUE,
                   {Field("name", <<"name">>, << <<"str">> >>, Required),
                    Field("type", <<"type">>, << <<"str">> >>, Required),
                    Field("alpha", <<"alpha">>, << <<"float">> >>, Required)},
                   EmptyObject),
         \* class Hop(HopBase, InventoryItem)
         Hop |->
             Class("Hop", <<"HopBase", "InventoryItem">>, TRUE,
                   {Field("use", <<"use">>, << <<"enum", "HopUse">>, <<"none">> >>, Default(JNull))},
                   EmptyObject),
         \* class HopDetail(Hop, VersionedModel)
         HopDetail |->
             Class("HopDetail", <<"Hop", "VersionedModel">>, TRUE,
                   {Field("beta", <<"beta">>, << <<"float">>, <<"none">> >>, Default(JNull)),
                    Field("oil", <<"oil">>, << <<"float">>, <<"none">> >>, Default(JNull)),
                    Field("myrcene", <<"myrcene">>, << <<"float">>, <<"none">> >>, Default(JNull)),
                    Field("caryophyllene", <<"caryophyllene">>, << <<"float">>, <<"none">> >>, Default(JNull)),
                    Field("humulene", <<"humulene">>, << <<"float">>, <<"none">> >>, Default(JNull)),
                    Field("farnesene", <<"farnesene">>, << <<"float">>, <<"none">> >>, Default(JNull)),
                    Field("cohumulone", <<"cohumulone">>, << <<"float">>, <<"none">> >>, Default(JNull)),
                    Field("hsi", <<"hsi">>, << <<"float">>, <<"none">> >>, Default(JNull)),
                    Field("origin", <<"origin">>, << <<"str">>, <<"none">> >>, Default(JNull)),
                    Field("year", <<"year">>, << <<"int">>, <<"none">> >>, Default(JNull)),
                    Field("usage", <<"usage">>, << <<"str">>, <<"none">> >>, Default(JNull)),
                    Field("notes", <<"notes">>, << <<"str">> >>, Default(JStr(""))),
                    Field("substitutes", <<"substitutes">>, << <<"str">> >>, Default(JStr(""))),
                    Field("used_in", <<"usedIn">>, << <<"str">> >>, Default(JStr(""))),
                    Field("user_notes", <<"userNotes">>, << <<"str">> >>, Default(JStr(""))),
                    Field("best_before_date", <<"bestBeforeDate">>, << <<"str">>, <<"none">> >>, Default(JNull)),
                    Field("manufacturing_date", <<"manufacturingDate">>, << <<"str">>, <<"none">> >>, Default(JNull)),
                    Field("lot_number", <<"lotNumber">>, << <<"str">>, <<"none">> >>, Default(JNull)),
                    Field("hidden", <<"hidden">>, << <<"bool">> >>, Default(Json("bool", "false"))),
                    Field("amount", <<"amount">>, << <<"float">>, <<"none">> >>, Default(JNull)),
                    Field("time", <<"time">>, << <<"int">>, <<"none">> >>, Default(JNull)),
                    Field("temp", <<"temp">>, << <<"float">>, <<"none">> >>, Default(JNull)),
                    Field("ibu", <<"ibu">>, << <<"float">> >>, Default(JInt("0")))},
                   [f \in {"manufacturing_date", "best_before_date"} |->
                      "HopDetail.convert_timestamp_to_isodate"]),
         \* class RecipeHop(HopBase)
         RecipeHop |->
             Class("RecipeHop", <<"HopBase">>, TRUE,
                   {Field("amount", <<"amount">>, << <<"float">> >>, Required),
                    Field("time", <<"time">>, << <<"int">> >>, Required),
                    Field("use", <<"use">>, << <<"enum", "HopUse">> >>, Required),
                    Field("ibu", <<"ibu">>, << <<"float">> >>, Default(JInt("0"))),
                    Field("beta", <<"beta">>, << <<"float">>, <<"none">> >>, Default(JNull)),
                    Field("temp", <<"temp">>, << <<"float">>, <<"none">> >>, Default(JNull)),
                    Field("origin", <<"origin">>, << <<"str">>, <<"none">> >>, Default(JNull)),
                    Field("actual_time", <<"actualTime">>, << <<"int">>, <<"none">> >>, Default(JNull)),
                    Field("time_unit", <<"timeUnit">>, << <<"str">>, <<"none">> >>, Default(JNull)),
                    Field("day", <<"day">>, << <<"int">>, <<"none">> >>, Default(JNull)),
                    Field("oil", <<"oil">>, << <<"float">>, <<"none">> >>, Default(JNull)),
                    Field("myrcene", <<"myrcene">>, << <<"float">>, <<"none">> >>, Default(JNull)),
                    Field("caryophyllene", <<"caryophyllene">>, << <<"float">>, <<"none">> >>, Default(JNull)),
                    Field("humulene", <<"humulene">>, << <<"float">>, <<"none">> >>, Default(JNull)),
                    Field("farnesene", <<"farnesene">>, << <<"float">>, <<"none">> >>, Default(JNull)),
                    Field("cohumulone", <<"cohumulone">>, << <<"float">>, <<"none">> >>, Default(JNull)),
                    Field("hsi", <<"hsi">>, << <<"float">>, <<"none">> >>, Default(JNull)),
                    Field("usage", <<"usage">>, << <<"str">>, <<"none">> >>, Default(JNull)),
                    Field("year", <<"year">>, << <<"int">>, <<"none">> >>, Default(JNull)),
                    Field("notes", <<"notes">>, << <<"str">>, <<"none">> >>, Default(JNull)),
                    Field("user_notes", <<"userNotes">>, << <<"str">>, <<"none">> >>, Default(JNull)),
                    Field("substitutes", <<"substitutes">>, << <<"str">>, <<"none">> >>, Default(JNull)),
                    Field("used_in", <<"usedIn">>, << <<"str">>, <<"none">> >>, Default(JNull)),
                    Field("best_before_date", <<"bestBeforeDate">>, << <<"str">>, <<"none">> >>, Default(JNull)),
                    Field("manufacturing_date", <<"manufacturingDate">>, << <<"str">>, <<"none">> >>, Default(JNull)),
                    Field("inventory", <<"inventory">>, << <<"float">>, <<"none">> >>, Default(JNull)),
                    Field("hidden", <<"hidden">>, << <<"bool">> >>, Default(Json("bool", "false"))),
                    Field("id", <<"_id">>, << <<"str">>, <<"none">> >>, Default(JNull))},
                   EmptyObject),
         \* class BatchHop(RecipeHop)
         BatchHop |->
             Class("BatchHop", <<"RecipeHop">>, TRUE,
                   {Field("display_amount", <<"displayAmount">>, << <<"float">> >>, Default(Json("float", "0.0"))),
                    Field("total_cost", <<"totalCost">>, << <<"float">> >>, Default(Json("float", "0.0"))),
                    Field("cost_per_amount", <<"costPerAmount">>, << <<"float">>, <<"none">> >>, Default(JNull)),
                    Field("not_in_recipe", <<"notInRecipe">>, << <<"bool">> >>, Default(Json("bool", "false"))),
                    Field("removed_from_inventory", <<"removedFromInventory">>, << <<"bool">> >>, Default(Json("bool", "false"))),
                    Field("removed_amount", <<"removedAmount">>, << <<"float">> >>, Default(Json("float", "0.0"))),
                    Field("checked", <<"checked">>, << <<"bool">> >>, Default(Json("bool", "false")))},
                   EmptyObject)],
     lists |->
         \* class HopList(RootModel[List[Hop]])
        [HopList |-> "Hop"]]

\* types/yeast.py: its StrEnum classes (the values of their members), its
\* models and its list classes, under their names.
types_yeast ==
    [enums |->
         \* class YeastForm(StrEnum)
        [YeastForm |-> {"Dry", "Liquid", "Slant", "Culture"}],
     models |->
         \* class YeastBase(BaseModel)
        [YeastBase |->
             Class("YeastBase", <<>>, TRUE,
                   {Field("name", <<"name">>, << <<"str">> >>, Required),
                    Field("type", <<"type">>, << <<"str">> >>, Required),
                    Field("attenuation", <<"attenuation">>, << <<"float">>, <<"none">> >>, Default(JNull))},
                   EmptyObject),
         \* class Yeast(YeastBase, InventoryItem)
         Yeast |->
             Class("Yeast", <<"YeastBase", "InventoryItem">>, TRUE,
                   {Field("form", <<"form">>, << <<"enum", "YeastForm">>, <<"none">> >>, Default(JNull))},
                   EmptyObject),
         \* class YeastDetail(Yeast, VersionedModel)
         YeastDetail |->
             Class("YeastDetail", <<"Yeast", "VersionedModel">>, TRUE,
                   {Field("laboratory", <<"laboratory">>, << <<"str">> >>, Required),
                    Field("product_id", <<"productId">>, << <<"str">>, <<"none">> >>, Default(JNull)),
                    Field("lot_number", <<"lotNumber">>, << <<"str">>, <<"none">> >>, Default(JNull)),
                    Field("min_attenuation", <<"minAttenuation">>, << <<"int">>, <<"none">> >>, Default(JNull)),
                    Field("max_attenuation", <<"maxAttenuation">>, << <<"int">>, <<"none">> >>, Default(JNull)),
                    Field("min_temp", <<"minTemp">>, << <<"float">>, <<"none">> >>, Default(JNull)),
                    Field("max_temp", <<"maxTemp">>, << <<"float">>, <<"none">> >>, Default(JNull)),
                    Field("max_abv", <<"maxAbv">>, << <<"int">>, <<"none">> >>, Default(JNull)),
                    Field("age_rate", <<"ageRate">>, << <<"int">>, <<"none">> >>, Default(JNull)),
                    Field("form", <<"form">>, << <<"enum", "YeastForm">>, <<"none">> >>, Default(JNull)),
                    Field("flocculation", <<"flocculation">>, << <<"str">>, <<"none">> >>, Default(JNull)),
                    Field("cells_per_pkg", <<"cellsPerPkg">>, << <<"int">>, <<"none">> >>, Default(JNull)),
                    Field("ferments_all", <<"fermentsAll">>, << <<"bool">> >>, Default(Json("bool", "false"))),
                    Field("description", <<"description">>, << <<"str">>, <<"none">> >>, Default(JNull)),
                    Field("unit", <<"unit">>, << <<"str">>, <<"none">> >>, Default(JNull)),
                    Field("amount", <<"amount">>, << <<"float">>, <<"none">> >>, Default(JNull)),
                    Field("cost_per_amount", <<"costPerAmount">>, << <<"float">>, <<"none">> >>, Default(JNull)),
                    Field("best_before_date", <<"bestBeforeDate">>, << <<"str">>, <<"none">> >>, Default(JNull)),
                    Field("manufacturing_date", <<"manufacturingDate">>, << <<"str">>, <<"none">> >>, Default(JNull)),
                    Field("user_notes", <<"userNotes">>, << <<"str">> >>, Default(JStr(""))),
                    Field("hidden", <<"hidden">>, << <<"bool">> >>, Default(Json("bool", "false")))},
                   [f \in {"manufacturing_date", "best_before_date"} |->
                      "YeastDetail.convert_timestamp_to_isodate"]),
         \* class RecipeYeast(YeastBase)
         RecipeYeast |->
             Class("RecipeYeast", <<"YeastBase">>, TRUE,
                   {Field("amount", <<"amount">>, << <<"float">> >>, Required),
                    Field("laboratory", <<"laboratory">>, << <<"str">> >>, Default(JStr(""))),
                    Field("product_id", <<"productId">>, << <<"str">>, <<"none">> >>, Default(JNull)),
                    Field("form", <<"form">>, << <<"enum", "YeastForm">>, <<"none">> >>, Default(JNull)),
                    Field("unit", <<"unit">>, << <<"str">>, <<"none">> >>, Default(JNull)),
                    Field("description", <<"description">>, << <<"str">>, <<"none">> >>, Default(JNull)),
                    Field("min_attenuation", <<"minAttenuation">>, << <<"int">>, <<"none">> >>, Default(JNull)),
                    Field("max_attenuation", <<"maxAttenuation">>, << <<"int">>, <<"none">> >>, Default(JNull)),
                    Field("min_temp", <<"minTemp">>, << <<"float">>, <<"none">> >>, Default(JNull)),
                    Field("max_temp", <<"maxTemp">>, << <<"float">>, <<"none">> >>, Default(JNull)),
                    Field("max_abv", <<"maxAbv">>, << <<"int">>, <<"none">> >>, Default(JNull)),
                    Field("flocculation", <<"flocculation">>, << <<"str">>, <<"none">> >>, Default(JNull)),
                    Field("ferments_all", <<"fermentsAll">>, << <<"bool">> >>, Default(Json("bool", "false"))),
                    Field("best_before_date", <<"bestBeforeDate">>, << <<"str">>, <<"none">> >>, Default(JNull)),
                    Field("manufacturing_date", <<"manufacturingDate">>, << <<"str">>, <<"none">> >>, Default(JNull)),
                    Field("user_notes", <<"userNotes">>, << <<"str">>, <<"none">> >>, Default(JNull)),
                    Field("starter", <<"starter">>, << <<"bool">>, <<"none">> >>, Default(JNull)),
                    Field("starter_size", <<"starterSize">>, << <<"float">>, <<"none">> >>, Default(JNull)),
                    Field("starter_gram_extract", <<"starterGramExtract">>, << <<"float">>, <<"none">> >>, Default(JNull)),
                    Field("inventory", <<"inventory">>, << <<"float">>, <<"none">> >>, Default(JNull)),
                    Field("hidden", <<"hidden">>, << <<"bool">> >>, Default(Json("bool", "false"))),
                    Field("id", <<"_id">>, << <<"str">>, <<"none">> >>, Default(JNull)),
                    Field("parent", <<"_parent">>, << <<"str">>, <<"none">> >>, Default(JNull))},
                   [f \in {"manufacturing_date", "best_before_date"} |->
                      "RecipeYeast.convert_timestamp_to_isodate"]),
         \* class BatchYeast(RecipeYeast)
         BatchYeast |->
             Class("BatchYeast", <<"RecipeYeast">>, TRUE,
                   {Field("display_amount", <<"displayAmount">>, << <<"float">> >>, Default(Json("float", "0.0"))),
                    Field("total_cost", <<"totalCost">>, << <<"float">> >>, Default(Json("float", "0.0"))),
                    Field("cost_per_amount", <<"costPerAmount">>, << <<"float">>, <<"none">> >>, Default(JNull)),
                    Field("not_in_recipe", <<"notInRecipe">>, << <<"bool">> >>, Default(Json("bool", "false"))),
                    Field("inventory_unit", <<"inventoryUnit">>, << <<"str">>, <<"none">> >>, Default(JNull))},
                   EmptyObject)],
     lists |->
         \* class YeastList(RootModel[List[Yeast]])
        [YeastList |-> "Yeast"]]

\* types/misc.py: its StrEnum classes (the values of their members), its
\* models and its list classes, under their names.
types_misc ==
    [enums |->
         \* class MiscUse(StrEnum)
        [MiscUse |-> {"Mash", "Boil", "Primary", "Secondary", "Bottling"},
         \* class MiscType(StrEnum)
         MiscType |-> {"Water Agent", "Fining", "Other", "Spice", "Herb"}],
     models |->
         \* class MiscBase(BaseModel)
        [MiscBase |->
             Class("MiscBase", <<>>, TRUE,
                   {Field("name", <<"name">>, << <<"str">> >>, Required),
                    Field("type", <<"type">>, << <<"enum", "MiscType">>, <<"str">>, <<"none">> >>, Default(JNull))},
                   EmptyObject),
         \* class Misc(MiscBase, InventoryItem)
         Misc |->
             Class("Misc", <<"MiscBase", "InventoryItem">>, TRUE,
                   {Field("use", <<"use">>, << <<"enum", "MiscUse">>, <<"none">> >>, Default(JNull)),
                    Field("notes", <<"notes">>, << <<"str">>, <<"none">> >>, Default(JNull))},
                   EmptyObject),
         \* class MiscDetail(Misc, VersionedModel)
         MiscDetail |->
             Class("MiscDetail", <<"Misc", "VersionedModel">>, TRUE,
                   {Field("use", <<"use">>, << <<"enum", "MiscUse">>, <<"none">> >>, Default(JNull)),
                    Field("time", <<"time">>, << <<"int">>, <<"none">> >>, Default(JNull)),
                    Field("time_is_days", <<"timeIsDays">>, << <<"bool">> >>, Default(Json("bool", "false"))),
                    Field("amount_per_l", <<"amountPerL">>, << <<"float">>, <<"none">> >>, Default(JNull)),
                    Field("concentration", <<"concentration">>, << <<"float">>, <<"none">> >>, Default(JNull)),
                    Field("water_adjustment", <<"waterAdjustment">>, << <<"bool">> >>, Default(Json("bool", "false"))),
                    Field("use_for", <<"useFor">>, << <<"str">>, <<"none">> >>, Default(JNull)),
                    Field("substitutes", <<"substitutes">>, << <<"str">>, <<"none">> >>, Default(JNull)),
                    Field("user_notes", <<"userNotes">>, << <<"str">>, <<"none">> >>, Default(JNull)),
                    Field("best_before_date", <<"bestBeforeDate">>, << <<"str">>, <<"none">> >>, Default(JNull)),
                    Field("manufacturing_date", <<"manufacturingDate">>, << <<"str">>, <<"none">> >>, Default(JNull)),
                    Field("hidden", <<"hidden">>, << <<"bool">> >>, Default(Json("bool", "false"))),
                    Field("unit", <<"unit">>, << <<"str">>, <<"none">> >>, Default(JNull))},
                   [f \in {"manufacturing_date", "best_before_date"} |->
                      "MiscDetail.convert_timestamp_to_isodate"]),
         \* class RecipeMisc(MiscBase)
         RecipeMisc |->
             Class("RecipeMisc", <<"MiscBase">>, TRUE,
                   {Field("amount", <<"amount">>, << <<"float">> >>, Required),
                    Field("use", <<"use">>, << <<"enum", "MiscUse">> >>, Required),
                    Field("unit", <<"unit">>, << <<"str">>, <<"none">> >>, Default(JNull)),
                    Field("time", <<"time">>, << <<"int">>, <<"none">> >>, Default(JNull)),
                    Field("time_is_days", <<"timeIsDays">>, << <<"bool">> >>, Default(Json("bool", "false"))),
                    Field("amount_per_l", <<"amountPerL">>, << <<"float">>, <<"none">> >>, Default(JNull)),
                    Field("concentration", <<"concentration">>, << <<"float">>, <<"none">> >>, Default(JNull)),
                    Field("water_adjustment", <<"waterAdjustment">>, << <<"bool">> >>, Default(Json("bool", "false"))),
                    Field("use_for", <<"useFor">>, << <<"str">>, <<"none">> >>, Default(JNull)),
                    Field("notes", <<"notes">>, << <<"str">>, <<"none">> >>, Default(JNull)),
                    Field("substitutes", <<"substitutes">>, << <<"str">>, <<"none">> >>, Default(JNull)),
                    Field("user_notes", <<"userNotes">>, << <<"str">>, <<"none">> >>, Default(JNull)),
                    Field("best_before_date", <<"bestBeforeDate">>, << <<"str">>, <<"none">> >>, Default(JNull)),
                    Field("manufacturing_date", <<"manufacturingDate">>, << <<"str">>, <<"none">> >>, Default(JNull)),
                    Field("inventory", <<"inventory">>, << <<"float">>, <<"none">> >>, Default(JNull)),
                    Field("hidden", <<"hidden">>, << <<"bool">> >>, Default(Json("bool", "false"))),
                    Field("id", <<"_id">>, << <<"str">>, <<"none">> >>, Default(JNull))},
                   EmptyObject),
         \* class BatchMisc(RecipeMisc)
         BatchMisc |->
             Class("BatchMisc", <<"RecipeMisc">>, TRUE,
                   {Field("display_amount", <<"displayAmount">>, << <<"float">> >>, Default(Json("float", "0.0"))),
                    Field("total_cost", <<"totalCost">>, << <<"float">> >>, Default(Json("float", "0.0"))),
                    Field("cost_per_amount", <<"costPerAmount">>, << <<"float">>, <<"none">> >>, Default(JNull)),
                    Field("not_in_recipe", <<"notInRecipe">>, << <<"bool">> >>, Default(Json("bool", "false"))),
                    Field("inventory_unit", <<"inventoryUnit">>, << <<"str">>, <<"none">> >>, Default(JNull))},
                   EmptyObject)],
     lists |->
         \* class MiscList(RootModel[List[Misc]])
        [MiscList |-> "Misc"]]

\* types/recipe.py: its StrEnum classes (the values of their members), its
\* models and its list classes, under their names.
types_recipe ==
    [enums |->
         \* class RecipeType(StrEnum)
        [RecipeType |-> {"All Grain", "Extract", "Partial Mash"}],
     models |->
         \* class RecipeStyle(BaseModel)
        [RecipeStyle |->
             Class("RecipeStyle", <<>>, FALSE,
                   {Field("name", <<"name">>, << <<"str">> >>, Required)},
                   EmptyObject),
         \* class RecipeStyleDetail(RecipeStyle)
         RecipeStyleDetail |->
             Class("RecipeStyleDetail", <<"RecipeStyle">>, FALSE,
                   {Field("category", <<"category">>, << <<"str">> >>, Required),
                    Field("type", <<"type">>, << <<"str">> >>, Required),
                    Field("ibu_min", <<"ibuMin">>, << <<"float">> >>, Required),
                    Field("ibu_max", <<"ibuMax">>, << <<"float">> >>, Required),
                    Field("abv_min", <<"abvMin">>, << <<"float">> >>, Required),
                    Field("abv_max", <<"abvMax">>, << <<"float">> >>, Required),
                    Field("og_min", <<"ogMin">>, << <<"float">> >>, Required),
                    Field("og_max", <<"ogMax">>, << <<"float">> >>, Required),
                    Field("fg_min", <<"fgMin">>, << <<"float">> >>, Required),
                    Field("fg_max", <<"fgMax">>, << <<"float">> >>, Required),
                    Field("color_min", <<"colorMin">>, << <<"float">> >>, Required),
                    Field("color_max", <<"colorMax">>, << <<"float">> >>, Required),
                    Field("style_guide", <<"styleGuide">>, << <<"str">>, <<"none">> >>, Default(JNull)),
                    Field("notes", <<"notes">>, << <<"str">>, <<"none">> >>, Default(JNull)),
                    Field("profile", <<"profile">>, << <<"str">>, <<"none">> >>, Default(JNull)),
                    Field("ingredients", <<"ingredients">>, << <<"str">>, <<"none">> >>, Default(JNull)),
                    Field("examples", <<"examples">>, << <<"str">>, <<"none">> >>, Default(JNull))},
                   EmptyObject),
         \* class RecipeName(BaseModel)
         RecipeName |->
             Class("RecipeName", <<>>, FALSE,
                   {Field("name", <<"name">>, << <<"str">> >>, Required)},
                   EmptyObject),
         \* class Recipe(RecipeName)
         Recipe |->
             Class("Recipe", <<"RecipeName">>, TRUE,
                   {Field("id", <<"_id">>, << <<"str">> >>, Required),
                    Field("author", <<"author">>, << <<"str">>, <<"none">> >>, Default(JNull)),
                    Field("type", <<"type">>, << <<"enum", "RecipeType">>, <<"none">> >>, Default(JNull)),
                    Field("equipment", <<"equipment">>, << <<"model", "EquipmentProfile">>, <<"none">> >>, Default(JNull)),
                    Field("style", <<"style">>, << <<"model", "RecipeStyle">>, <<"none">> >>, Default(JNull))},
                   EmptyObject),
         \* class RecipeDetail(Recipe)
         RecipeDetail |->
             Class("RecipeDetail", <<"Recipe">>, TRUE,
                   {Field("batch_size", <<"batchSize">>, << <<"float">>, <<"none">> >>, Default(JNull)),
                    Field("boil_size", <<"boilSize">>, << <<"float">>, <<"none">> >>, Default(JNull)),
                    Field("boil_time", <<"boilTime">>, << <<"int">>, <<"none">> >>, Default(JNull)),
                    Field("efficiency", <<"efficiency">>, << <<"float">>, <<"none">> >>, Default(JNull)),
                    Field("mash_efficiency", <<"mashEfficiency">>, << <<"float">>, <<"none">> >>, Default(JNull)),
                    Field("og", <<"og">>, << <<"float">>, <<"none">> >>, Default(JNull)),
                    Field("fg", <<"fg">>, << <<"float">>, <<"none">> >>, Default(JNull)),
                    Field("ibu", <<"ibu">>, << <<"float">>, <<"none">> >>, Default(JNull)),
                    Field("color", <<"color">>, << <<"float">>, <<"none">> >>, Default(JNull)),
                    Field("abv", <<"abv">>, << <<"float">>, <<"none">> >>, Default(JNull)),
                    Field("og_plato", <<"ogPlato">>, << <<"float">>, <<"none">> >>, Default(JNull)),
                    Field("post_boil_gravity", <<"postBoilGravity">>, << <<"float">>, <<"none">> >>, Default(JNull)),
                    Field("pre_boil_gravity", <<"preBoilGravity">>, << <<"float">>, <<"none">> >>, Default(JNull)),
                    Field("attenuation", <<"attenuation">>, << <<"float">>, <<"none">> >>, Default(JNull)),
                    Field("style", <<"style">>, << <<"model", "RecipeStyle">>, <<"model", "RecipeStyleDetail">>, <<"none">> >>, Default(JNull)),
                    Field("fermentables", <<"fermentables">>, << <<"list", "RecipeFermentable">> >>, Default(JArr(<< >>))),
                    Field("hops", <<"hops">>, << <<"list", "RecipeHop">> >>, Default(JArr(<< >>))),
                    Field("yeasts", <<"yeasts">>, << <<"list", "RecipeYeast">> >>, Default(JArr(<< >>))),
                    Field("miscs", <<"miscs">>, << <<"list", "RecipeMisc">> >>, Default(JArr(<< >>))),
                    Field("mash", <<"mash">>, << <<"model", "MashSchedule">>, <<"none">> >>, Default(JNull)),
                    Field("water", <<"water">>, << <<"model", "WaterSettings">>, <<"none">> >>, Default(JNull)),
                    Field("fermentation", <<"fermentation">>, << <<"model", "FermentationSchedule">>, <<"none">> >>, Default(JNull)),
                    Field("equipment", <<"equipment">>, << <<"model", "EquipmentProfile">>, <<"model", "EquipmentProfileDetail">>, <<"none">> >>, Default(JNull)),
                    Field("boil_steps", <<"boilSteps">>, << <<"list", "BoilStep">> >>, Default(JArr(<< >>))),
                    Field("mash_steps_count", <<"mashStepsCount">>, << <<"int">>, <<"none">> >>, Default(JNull)),
                    Field("boil_steps_count", <<"boilStepsCount">>, << <<"int">>, <<"none">> >>, Default(JNull)),
                    Field("notes", <<"notes">>, << <<"str">>, <<"none">> >>, Default(JNull)),
                    Field("tags", <<"tags">>, << <<"list", "str">>, <<"none">> >>, Default(JNull)),
                    Field("public", <<"public">>, << <<"bool">>, <<"none">> >>, Default(JNull)),
                    Field("hidden", <<"hidden">>, << <<"bool">> >>, Default(Json("bool", "false"))),
                    Field("search_tags", <<"searchTags">>, << <<"list", "str">> >>, Default(JArr(<< >>))),
                    Field("version", <<"_version">>, << <<"str">>, <<"none">> >>, Default(JNull)),
                    Field("created", <<"_created">>, << <<"model", "Timestamp">>, <<"none">> >>, Default(JNull)),
                    Field("timestamp", <<"_timestamp">>, << <<"model", "Timestamp">>, <<"none">> >>, Default(JNull)),
                    Field("timestamp_ms", <<"_timestamp_ms">>, << <<"int">>, <<"none">> >>, Default(JNull)),
                    Field("rev", <<"_rev">>, << <<"str">>, <<"none">> >>, Default(JNull)),
                    Field("uid", <<"_uid">>, << <<"str">>, <<"none">> >>, Default(JNull)),
                    Field("ev", <<"_ev">>, << <<"float">>, <<"none">> >>, Default(JNull)),
                    Field("type_field", <<"_type">>, << <<"str">> >>, Default(JStr("recipe"))),
                    Field("init", <<"_init">>, << <<"bool">> >>, Default(Json("bool", "false"))),
                    Field("share", <<"_share">>, << <<"str">>, <<"none">> >>, Default(JNull)),
                    Field("public_flag", <<"_public">>, << <<"bool">>, <<"none">> >>, Default(JNull)),
                    Field("defaults", <<"defaults">>, << <<"dict">>, <<"none">> >>, Default(JNull)),
                    Field("nutrition", <<"nutrition">>, << <<"dict">>, <<"none">> >>, Default(JNull)),
                    Field("total_gravity", <<"totalGravity">>, << <<"float">>, <<"none">> >>, Default(JNull)),
                    Field("first_wort_gravity", <<"firstWortGravity">>, << <<"float">>, <<"none">> >>, Default(JNull)),
                    Field("data", <<"data">>, << <<"dict">>, <<"none">> >>, Default(JNull)),
                    Field("fermentables_total_amount", <<"fermentablesTotalAmount">>, << <<"float">>, <<"none">> >>, Default(JNull)),
                    Field("hops_total_amount", <<"hopsTotalAmount">>, << <<"float">>, <<"none">> >>, Default(JNull)),
                    Field("ibu_formula", <<"ibuFormula">>, << <<"enum", "IbuFormula">>, <<"none">> >>, Default(JNull)),
                    Field("fg_formula", <<"fgFormula">>, << <<"enum", "FgFormula">>, <<"none">> >>, Default(JNull)),
                    Field("carbonation", <<"carbonation">>, << <<"float">>, <<"none">> >>, Default(JNull)),
                    Field("style_conformity", <<"styleConformity">>, << <<"bool">>, <<"none">> >>, Default(JNull)),
                    Field("bu_gu_ratio", <<"buGuRatio">>, << <<"float">>, <<"none">> >>, Default(JNull)),
                    Field("rb_ratio", <<"rbRatio">>, << <<"float">>, <<"none">> >>, Default(JNull)),
                    Field("sum_dry_hop_per_liter", <<"sumDryHopPerLiter">>, << <<"float">>, <<"none">> >>, Default(JNull)),
                    Field("avg_weighted_hopstand_temp", <<"avgWeightedHopstandTemp">>, << <<"float">>, <<"none">> >>, Default(JNull)),
                    Field("diasmatic_power", <<"diastaticPower">>, << <<"float">>, <<"none">> >>, Default(JNull)),
                    Field("primary_temp", <<"primaryTemp">>, << <<"float">>, <<"none">> >>, Default(JNull)),
                    Field("fermentable_ibu", <<"fermentableIbu">>, << <<"float">>, <<"none">> >>, Default(JNull)),
                    Field("extra_gravity", <<"extraGravity">>, << <<"float">>, <<"none">> >>, Default(JNull)),
                    Field("path", <<"path">>, << <<"str">>, <<"none">> >>, Default(JNull)),
                    Field("yeast_tolerance_exceeded_by", <<"yeastToleranceExceededBy">>, << <<"float">>, <<"none">> >>, Default(JNull)),
                    Field("manual_fg", <<"manualFg">>, << <<"bool">>, <<"none">> >>, Default(JNull)),
                    Field("hop_stand_minutes", <<"hopStandMinutes">>, << <<"int">>, <<"none">> >>, Default(JNull)),
                    Field("carbonation_style", <<"carbonationStyle">>, << <<"dict">>, <<"none">> >>, Default(JNull))},
                   EmptyObject)],
     lists |->
         \* class RecipeList(RootModel[list[Recipe]])
        [RecipeList |-> "Recipe"]]

\* types/batch.py: its StrEnum classes (the values of their members), its
\* models and its list classes, under their names.
types_batch ==
    [enums |->
         \* class BatchStatus(StrEnum)
        [BatchStatus |-> {"Planning", "Brewing", "Fermenting", "Conditioning",
             "Completed", "Archived"}],
     models |->
         \* class BatchMeasurement(BaseModel)
        [BatchMeasurement |->
             Class("BatchMeasurement", <<>>, FALSE,
                   {Field("type", <<"type">>, << <<"str">> >>, Required),
                    Field("value", <<"value">>, << <<"float">> >>, Required),
                    Field("unit", <<"unit">>, << <<"str">> >>, Required),
                    Field("time", <<"time">>, << <<"datetime">> >>, Required),
                    Field("comment", <<"comment">>, << <<"str">>, <<"none">> >>, Default(JNull))},
                   EmptyObject),
         \* class BatchNote(BaseModel)
         BatchNote |->
             Class("BatchNote", <<>>, FALSE,
                   {Field("note", <<"note">>, << <<"str">> >>, Required),
                    Field("type", <<"type">>, << <<"str">>, <<"none">> >>, Default(JNull)),
                    Field("timestamp", <<"timestamp">>, << <<"int">> >>, Required)},
                   EmptyObject),
         \* class Batch(BaseModel)
         Batch |->
             Class("Batch", <<>>, FALSE,
                   {Field("name", <<"name">>, << <<"str">> >>, Required),
                    Field("id", <<"_id">>, << <<"str">> >>, Required),
                    Field("batch_no", <<"batchNo">>, << <<"int">> >>, Required),
                    Field("brew_date", <<"brewDate">>, << <<"int">>, <<"none">> >>, Default(JNull)),
                    Field("status", <<"status">>, << <<"enum", "BatchStatus">> >>, Default(JStr("Planning"))),
                    Field("brewer", <<"brewer">>, << <<"str">>, <<"none">> >>, Default(JNull)),
                    Field("recipe_name", <<"recipe", "name">>, << <<"str">> >>, Required)},
                   EmptyObject),
         \* class BatchDetail(Batch, VersionedModel)
         BatchDetail |->
             Class("BatchDetail", <<"Batch", "VersionedModel">>, TRUE,
                   {Field("recipe_id", <<"recipeId">>, << <<"str">>, <<"none">> >>, Default(JNull)),
                    Field("measurements", <<"measurements">>, << <<"list", "BatchMeasurement">> >>, Default(JArr(<< >>))),
                    Field("notes", <<"notes">>, << <<"list", "BatchNote">> >>, Default(JArr(<< >>))),
                    Field("measurement_devices", <<"measurementDevices">>, << <<"list", "dict">> >>, Default(JArr(<< >>))),
                    Field("tags", <<"tags">>, << <<"list", "str">> >>, Default(JArr(<< >>))),
                    Field("brewed", <<"brewed">>, << <<"bool">> >>, Default(Json("bool", "false"))),
                    Field("og", <<"og">>, << <<"float">>, <<"none">> >>, Default(JNull)),
                    Field("fg", <<"fg">>, << <<"float">>, <<"none">> >>, Default(JNull)),
                    Field("abv", <<"abv">>, << <<"float">>, <<"none">> >>, Default(JNull)),
                    Field("bottling_date", <<"bottlingDate">>, << <<"datetime">>, <<"none">> >>, Default(JNull)),
                    Field("carbonation_type", <<"carbonationType">>, << <<"enum", "CarbonationType">>, <<"none">> >>, Default(JNull)),
                    Field("carbonation_level", <<"carbonationLevel">>, << <<"float">>, <<"none">> >>, Default(JNull)),
                    Field("fermentation_start_date", <<"fermentationStartDate">>, << <<"datetime">>, <<"none">> >>, Default(JNull)),
                    Field("fermentation_end_date", <<"fermentationEndDate">>, << <<"datetime">>, <<"none">> >>, Default(JNull)),
                    Field("recipe", <<"recipe">>, << <<"model", "RecipeDetail">> >>, Required),
                    Field("events", <<"events">>, << <<"list", "dict">> >>, Default(JArr(<< >>))),
                    Field("devices", <<"devices">>, << <<"dict">> >>, Default(JObj(EmptyObject))),
                    Field("measured_og", <<"measuredOg">>, << <<"float">>, <<"none">> >>, Default(JNull)),
                    Field("measured_fg", <<"measuredFg">>, << <<"float">>, <<"none">> >>, Default(JNull)),
                    Field("measured_abv", <<"measuredAbv">>, << <<"float">>, <<"none">> >>, Default(JNull)),
                    Field("measured_attenuation", <<"measuredAttenuation">>, << <<"float">>, <<"none">> >>, Default(JNull)),
                    Field("measured_efficiency", <<"measuredEfficiency">>, << <<"float">>, <<"none">> >>, Default(JNull)),
                    Field("measured_mash_efficiency", <<"measuredMashEfficiency">>, << <<"float">>, <<"none">> >>, Default(JNull)),
                    Field("measured_kettle_efficiency", <<"measuredKettleEfficiency">>, << <<"float">>, <<"none">> >>, Default(JNull)),
                    Field("measured_conversion_efficiency", <<"measuredConversionEfficiency">>, << <<"float">>, <<"none">> >>, Default(JNull)),
                    Field("measured_pre_boil_gravity", <<"measuredPreBoilGravity">>, << <<"float">>, <<"none">> >>, Default(JNull)),
                    Field("measured_post_boil_gravity", <<"measuredPostBoilGravity">>, << <<"float">>, <<"none">> >>, Default(JNull)),
                    Field("measured_first_wort_gravity", <<"measuredFirstWortGravity">>, << <<"float">>, <<"none">> >>, Default(JNull)),
                    Field("measured_batch_size", <<"measuredBatchSize">>, << <<"float">>, <<"none">> >>, Default(JNull)),
                    Field("measured_boil_size", <<"measuredBoilSize">>, << <<"float">>, <<"none">> >>, Default(JNull)),
                    Field("measured_bottling_size", <<"measuredBottlingSize">>, << <<"float">>, <<"none">> >>, Default(JNull)),
                    Field("measured_fermenter_top_up", <<"measuredFermenterTopUp">>, << <<"float">>, <<"none">> >>, Default(JNull)),
                    Field("measured_kettle_size", <<"measuredKettleSize">>, << <<"float">>, <<"none">> >>, Default(JNull)),
                    Field("measured_mash_ph", <<"measuredMashPh">>, << <<"float">>, <<"none">> >>, Default(JNull)),
                    Field("estimated_og", <<"estimatedOg">>, << <<"float">>, <<"none">> >>, Default(JNull)),
                    Field("estimated_fg", <<"estimatedFg">>, << <<"float">>, <<"none">> >>, Default(JNull)),
                    Field("estimated_ibu", <<"estimatedIbu">>, << <<"float">>, <<"none">> >>, Default(JNull)),
                    Field("estimated_color", <<"estimatedColor">>, << <<"float">>, <<"none">> >>, Default(JNull)),
                    Field("estimated_abv", <<"estimatedAbv">>, << <<"float">>, <<"none">> >>, Default(JNull)),
                    Field("estimated_total_gravity", <<"estimatedTotalGravity">>, << <<"float">>, <<"none">> >>, Default(JNull)),
                    Field("estimated_bu_gu_ratio", <<"estimatedBuGuRatio">>, << <<"float">>, <<"none">> >>, Default(JNull)),
                    Field("estimated_rb_ratio", <<"estimatedRbRatio">>, << <<"float">>, <<"none">> >>, Default(JNull)),
                    Field("batch_fermentables", <<"batchFermentables">>, << <<"list", "BatchFermentable">> >>, Default(JArr(<< >>))),
                    Field("batch_hops", <<"batchHops">>, << <<"list", "BatchHop">> >>, Default(JArr(<< >>))),
                    Field("batch_yeasts", <<"batchYeasts">>, << <<"list", "BatchYeast">> >>, Default(JArr(<< >>))),
                    Field("batch_miscs", <<"batchMiscs">>, << <<"list", "BatchMisc">> >>, Default(JArr(<< >>))),
                    Field("batch_fermentables_local", <<"batchFermentablesLocal">>, << <<"list", "BatchFermentable">> >>, Default(JArr(<< >>))),
                    Field("batch_hops_local", <<"batchHopsLocal">>, << <<"list", "BatchHop">> >>, Default(JArr(<< >>))),
                    Field("batch_yeasts_local", <<"batchYeastsLocal">>, << <<"list", "BatchYeast">> >>, Default(JArr(<< >>))),
                    Field("batch_miscs_local", <<"batchMiscsLocal">>, << <<"list", "BatchMisc">> >>, Default(JArr(<< >>))),
                    Field("brew_controller_enabled", <<"brewControllerEnabled">>, << <<"bool">> >>, Default(Json("bool", "false"))),
                    Field("fermentation_controller_enabled", <<"fermentationControllerEnabled">>, << <<"bool">> >>, Default(Json("bool", "false"))),
                    Field("mash_steps_count", <<"mashStepsCount">>, << <<"int">>, <<"none">> >>, Default(JNull)),
                    Field("boil_steps_count", <<"boilStepsCount">>, << <<"int">>, <<"none">> >>, Default(JNull)),
                    Field("boil_steps", <<"boilSteps">>, << <<"list", "BoilStep">> >>, Default(JArr(<< >>))),
                    Field("hidden", <<"hidden">>, << <<"bool">> >>, Default(Json("bool", "false"))),
                    Field("archived", <<"_archived">>, << <<"bool">> >>, Default(Json("bool", "false"))),
                    Field("init", <<"_init">>, << <<"bool">> >>, Default(Json("bool", "false"))),
                    Field("hide_batch_events", <<"hideBatchEvents">>, << <<"bool">> >>, Default(Json("bool", "false"))),
                    Field("priming_sugar_equiv", <<"primingSugarEquiv">>, << <<"float">>, <<"none">> >>, Default(JNull)),
                    Field("carbonation_force", <<"carbonationForce">>, << <<"float">>, <<"none">> >>, Default(JNull)),
                    Field("bottling_date_set", <<"bottlingDateSet">>, << <<"bool">> >>, Default(Json("bool", "false"))),
                    Field("fermentation_start_date_set", <<"fermentationStartDateSet">>, << <<"bool">> >>, Default(Json("bool", "false"))),
                    Field("cost", <<"cost">>, << <<"dict">> >>, Default(JObj(EmptyObject))),
                    Field("shared", <<"_shared">>, << <<"bool">> >>, Default(Json("bool", "false"))),
                    Field("share", <<"_share">>, << <<"str">>, <<"none">> >>, Default(JNull)),
                    Field("type_field", <<"_type">>, << <<"str">> >>, Default(JStr("batch")))},
                   EmptyObject)],
     lists |->
         \* class BatchList(RootModel[list[Batch]])
        [BatchList |-> "Batch"]]

\* types/brewtracker.py: its StrEnum classes (the values of their members), its
\* models and its list classes, under their names.
types_brewtracker ==
    [enums |-> EmptyObject,
     models |->
         \* class BrewTrackerStep(BaseModel)
        [BrewTrackerStep |->
             Class("BrewTrackerStep", <<>>, TRUE,
                   {Field("name", <<"name">>, << <<"str">>, <<"none">> >>, Default(JNull)),
                    Field("type", <<"type">>, << <<"str">> >>, Required),
                    Field("time", <<"time">>, << <<"int">> >>, Required),
                    Field("duration", <<"duration">>, << <<"int">>, <<"none">> >>, Default(JNull)),
                    Field("priority", <<"priority">>, << <<"int">>, <<"none">> >>, Default(JNull)),
                    Field("value", <<"value">>, << <<"float">>, <<"none">> >>, Default(JNull)),
                    Field("description", <<"description">>, << <<"str">>, <<"none">> >>, Default(JNull)),
                    Field("tooltip", <<"tooltip">>, << <<"str">>, <<"none">> >>, Default(JNull)),
                    Field("pause_before", <<"pauseBefore">>, << <<"bool">> >>, Default(Json("bool", "false"))),
                    Field("final", <<"final">>, << <<"bool">>, <<"none">> >>, Default(JNull))},
                   EmptyObject),
         \* class BrewTrackerStage(BaseModel)
         BrewTrackerStage |->
             Class("BrewTrackerStage", <<>>, TRUE,
                   {Field("name", <<"name">>, << <<"str">> >>, Required),
                    Field("type", <<"type">>, << <<"str">> >>, Required),
                    Field("duration", <<"duration">>, << <<"int">> >>, Required),
                    Field("step", <<"step">>, << <<"int">> >>, Required),
                    Field("position", <<"position">>, << <<"int">> >>, Required),
                    Field("paused", <<"paused">>, << <<"bool">> >>, Required),
                    Field("steps", <<"steps">>, << <<"list", "BrewTrackerStep">> >>, Required)},
                   EmptyObject),
         \* class BrewTrackerStatus(BaseModel)
         BrewTrackerStatus |->
             Class("BrewTrackerStatus", <<>>, TRUE,
                   {Field("id", <<"_id">>, << <<"str">>, <<"none">> >>, Default(JNull)),
                    Field("name", <<"name">>, << <<"str">>, <<"none">> >>, Default(JNull)),
                    Field("stage", <<"stage">>, << <<"int">> >>, Default(JInt("0"))),
                    Field("hidden", <<"hidden">>, << <<"bool">> >>, Default(Json("bool", "false"))),
                    Field("alarm", <<"alarm">>, << <<"bool">> >>, Default(Json("bool", "false"))),
                    Field("active", <<"active">>, << <<"bool">> >>, Default(Json("bool", "false"))),
                    Field("completed", <<"completed">>, << <<"bool">> >>, Default(Json("bool", "false"))),
                    Field("enabled", <<"enabled">>, << <<"bool">> >>, Default(Json("bool", "true"))),
                    Field("notify", <<"notify">>, << <<"bool">> >>, Default(Json("bool", "true"))),
                    Field("stages", <<"stages">>, << <<"list", "BrewTrackerStage">> >>, Default(JArr(<< >>))),
                    Field("rev", <<"_rev">>, << <<"str">>, <<"none">> >>, Default(JNull))},
                   EmptyObject),
         \* class BatchReading(BaseModel)
         BatchReading |->
             Class("BatchReading", <<>>, TRUE,
                   {Field("time", <<"time">>, << <<"int">> >>, Required),
                    Field("type", <<"type">>, << <<"str">> >>, Required),
                    Field("id", <<"id">>, << <<"str">>, <<"none">> >>, Default(JNull)),
                    Field("name", <<"name">>, << <<"str">>, <<"none">> >>, Default(JNull)),
                    Field("device_type", <<"deviceType">>, << <<"str">>, <<"none">> >>, Default(JNull)),
                    Field("device_id", <<"deviceId">>, << <<"str">>, <<"none">> >>, Default(JNull)),
                    Field("temp", <<"temp">>, << <<"float">>, <<"none">> >>, Default(JNull)),
                    Field("sg", <<"sg">>, << <<"float">>, <<"none">> >>, Default(JNull)),
                    Field("battery", <<"battery">>, << <<"float">>, <<"none">> >>, Default(JNull)),
                    Field("rssi", <<"rssi">>, << <<"float">>, <<"none">> >>, Default(JNull)),
                    Field("target_temp", <<"target_temp">>, << <<"float">>, <<"none">> >>, Default(JNull)),
                    Field("ph", <<"ph">>, << <<"float">>, <<"none">> >>, Default(JNull)),
                    Field("pressure", <<"pressure">>, << <<"float">>, <<"none">> >>, Default(JNull)),
                    Field("angle", <<"angle">>, << <<"float">>, <<"none">> >>, Default(JNull)),
                    Field("interval", <<"interval">>, << <<"int">>, <<"none">> >>, Default(JNull)),
                    Field("room_temp", <<"roomTemp">>, << <<"float">>, <<"none">> >>, Default(JNull)),
                    Field("fridge_temp", <<"fridgeTemp">>, << <<"float">>, <<"none">> >>, Default(JNull)),
                    Field("beer", <<"beer">>, << <<"float">>, <<"none">> >>, Default(JNull)),
                    Field("bpm", <<"bpm">>, << <<"float">>, <<"none">> >>, Default(JNull)),
                    Field("comment", <<"comment">>, << <<"str">>, <<"none">> >>, Default(JNull)),
                    Field("status", <<"status">>, << <<"str">>, <<"none">> >>, Default(JNull))},
                   EmptyObject),
         \* class LastReading(BatchReading)
         LastReading |->
             Class("LastReading", <<"BatchReading">>, FALSE,
                   {},
                   EmptyObject)],
     lists |->
         \* class BatchReadingsList(RootModel[List[BatchReading]])
        [BatchReadingsList |-> "BatchReading"]]

\* The classes of types/ by name, as an annotation or a return type refers
\* to them: the StrEnum classes and the list classes with the class of their
\* elements.
Declared(kind) ==
    Merge(types_base[kind], Merge(types_inventory[kind],
    Merge(types_fermentable[kind], Merge(types_hop[kind],
    Merge(types_yeast[kind], Merge(types_misc[kind],
    Merge(types_recipe[kind], Merge(types_batch[kind],
          types_brewtracker[kind]))))))))
Enums == Declared("enums")
Lists == Declared("lists")

\* An attribute of the classes named, as a class inherits it: what a class
\* declares over what its bases do, a class written earlier deciding over a
\* later one, as the method resolution order does.
RECURSIVE Inherited(_, _, _)
Inherited(declared, names, attribute) ==
    IF names = << >>
    THEN EmptyObject
    ELSE Merge(Merge(declared[Head(names)][attribute],
                     Inherited(declared, declared[Head(names)].bases, attribute)),
               Inherited(declared, Tail(names), attribute))

\* The models by name, each with what it inherits: the fields of its bases,
\* model_config merged with the bases', and the bases' field validators.
WithBases(declared) ==
    [n \in DOMAIN declared |->
        [name |-> n,
         fields |-> Inherited(declared, <<n>>, "fields"),
         populate_by_name |->
             "populate_by_name" \in DOMAIN Inherited(declared, <<n>>, "model_config"),
         before |-> Inherited(declared, <<n>>, "before")]]
Models == WithBases(Declared("models"))

\* ---------------------------------------------- validation of a JSON body
\* utils.convert_timestamp_to_iso8601: an integer of epoch milliseconds
\* becomes an ISO-8601 string; any other value is returned as it is.
EpochMsToIso(v) ==
    CASE v = "0" -> "1970-01-01T00:00:00"
      [] v = "1" -> "1970-01-01T00:00:00.001000"
      [] OTHER -> "2021-01-01T00:00:00"
convert_timestamp_to_iso8601(value) ==
    IF value.t = "int" THEN JStr(EpochMsToIso(value.v)) ELSE value

\* The field validators of mode "before", by class and name: the detail
\* classes of fermentable, hop and misc convert whatever they are given,
\* those of yeast only an int.
BeforeValidate(validatorName, value) ==
    IF validatorName \in {"YeastDetail.convert_timestamp_to_isodate",
                          "RecipeYeast.convert_timestamp_to_isodate"}
    THEN IF value.t \in {"int", "bool"}
         THEN convert_timestamp_to_iso8601(value)
         ELSE value
    ELSE convert_timestamp_to_iso8601(value)

\* The outcome of a validation: the value, or the errors with the place of
\* each in the body.
Valid(value) == [ok |-> TRUE, value |-> value, errors |-> {}]
Invalid(errors) == [ok |-> FALSE, value |-> JNull, errors |-> errors]
ErrorAt(loc, type) == Invalid({[loc |-> loc, type |-> type]})
Under(loc, errors) == {[loc |-> loc \o e.loc, type |-> e.type] : e \in errors}

\* The value of a field in a body: by its alias (the path of an AliasPath),
\* or by its name when the class has populate_by_name.
Lookup(cls, field, object) ==
    LET outer == field.alias[1]
        byAlias ==
            IF Len(field.alias) = 1
            THEN outer \in DOMAIN object
            ELSE /\ outer \in DOMAIN object
                 /\ object[outer].t = "object"
                 /\ field.alias[2] \in DOMAIN object[outer].o
    IN  IF byAlias
        THEN [found |-> TRUE,
              value |-> IF Len(field.alias) = 1 THEN object[outer]
                        ELSE object[outer].o[field.alias[2]]]
        ELSE IF cls.populate_by_name /\ field.name \in DOMAIN object
        THEN [found |-> TRUE, value |-> object[field.name]]
        ELSE [found |-> FALSE, value |-> JNull]

\* A StrEnum takes a value that is the text of one of its members.
IsMemberOrText(of, value) == value.t = "string"
IsMember(of, value) == value.t = "string" /\ value.v \in Enums[of]

RECURSIVE ValidateType(_, _)
RECURSIVE model_validate_json(_, _)

\* The elements of a list validated one by one, in their order; an error is
\* placed by the index of its element.
ValidateItemsReversed(of, items) ==
    LET itemType == IF of \in {"str", "dict"} THEN <<of>> ELSE <<"model", of>>
        IndexText(i) == CASE i = 1 -> "0" [] i = 2 -> "1" [] i = 3 -> "2"
                          [] OTHER -> "3"
        each == [i \in DOMAIN items |->
                    ValidateType(itemType, items[Len(items) + 1 - i])]
        errors == UNION {Under(<<IndexText(i)>>, each[i].errors) : i \in DOMAIN items}
    IN  IF errors = {}
        THEN Valid(JArr([i \in DOMAIN items |-> each[i].value]))
        ELSE Invalid(errors)
ValidateItems(of, items) ==
    LET itemType == IF of \in {"str", "dict"} THEN <<of>> ELSE <<"model", of>>
        IndexText(i) == CASE i = 1 -> "0" [] i = 2 -> "1" [] i = 3 -> "2"
                          [] OTHER -> "3"
        each == [i \in DOMAIN items |-> ValidateType(itemType, items[i])]
        errors == UNION {Under(<<IndexText(i)>>, each[i].errors) : i \in DOMAIN items}
    IN  IF errors = {}
        THEN Valid(JArr([i \in DOMAIN items |-> each[i].value]))
        ELSE Invalid(errors)

\* One alternative of an annotation applied to a JSON value, in pydantic's
\* lax mode on JSON input. The texts are those of the numbers and dates the
\* modelled bodies hold; a number given for a datetime is seconds from the
\* epoch, or milliseconds when as large as 1609459200000.
ValidateType(type, value) ==
    LET kind == type[1]
        IntTexts == {"0", "1", "1609459200000"}
        FloatTexts == {"12.5", "1.0"}
        IsoTexts == {"2021-01-01T00:00:00", "1970-01-01T00:00:00"}
        EpochToIso(v) ==
            CASE v = "0" -> "1970-01-01T00:00:00"
              [] v \in {"1", "1.0"} -> "1970-01-01T00:00:01"
              [] v = "12.5" -> "1970-01-01T00:00:12.500000"
              [] OTHER -> "2021-01-01T00:00:00"
    IN  CASE kind = "none" ->
               IF value.t = "null" THEN Valid(JNull)
               ELSE ErrorAt(<< >>, "none_required")
          [] kind = "str" ->
               IF value.t = "string" THEN Valid(value)
               ELSE ErrorAt(<< >>, "string_type")
          [] kind = "int" ->
               CASE value.t = "int" -> Valid(value)
                 [] value.t = "bool" ->
                      Valid(JInt(IF value.v = "true" THEN "1" ELSE "0"))
                 [] value.t = "float" ->
                      IF value.v = "1.0" THEN Valid(JInt("1"))
                      ELSE ErrorAt(<< >>, "int_from_float")
                 [] value.t = "string" ->
                      IF value.v \in IntTexts THEN Valid(JInt(value.v))
                      ELSE ErrorAt(<< >>, "int_parsing")
                 [] OTHER -> ErrorAt(<< >>, "int_type")
          [] kind = "float" ->
               CASE value.t = "float" -> Valid(value)
                 [] value.t = "int" -> Valid(Json("float", value.v \o ".0"))
                 [] value.t = "bool" ->
                      Valid(Json("float", IF value.v = "true" THEN "1.0" ELSE "0.0"))
                 [] value.t = "string" ->
                      IF value.v \in FloatTexts THEN Valid(Json("float", value.v))
                      ELSE IF value.v \in IntTexts
                      THEN Valid(Json("float", value.v \o ".0"))
                      ELSE ErrorAt(<< >>, "float_parsing")
                 [] OTHER -> ErrorAt(<< >>, "float_type")
          [] kind = "bool" ->
               CASE value.t = "bool" -> Valid(value)
                 [] value.t = "int" /\ value.v = "0" -> Valid(Json("bool", "false"))
                 [] value.t = "int" /\ value.v = "1" -> Valid(Json("bool", "true"))
                 [] value.t = "float" /\ value.v = "1.0" ->
                      Valid(Json("bool", "true"))
                 [] value.t \in {"int", "float", "string"} ->
                      ErrorAt(<< >>, "bool_parsing")
                 [] OTHER -> ErrorAt(<< >>, "bool_type")
          [] kind = "datetime" ->
               CASE value.t = "string" ->
                      IF value.v \in IsoTexts THEN Valid(Json("datetime", value.v))
                      ELSE ErrorAt(<< >>, "datetime_from_date_parsing")
                 [] value.t \in {"int", "float"} ->
                      Valid(Json("datetime", EpochToIso(value.v)))
                 [] OTHER -> ErrorAt(<< >>, "datetime_type")
          [] kind = "enum" ->
               IF IsMember(type[2], value) THEN Valid(value)
               ELSE ErrorAt(<< >>, "enum")
          [] kind = "dict" ->
               IF value.t = "object" THEN Valid(value)
               ELSE ErrorAt(<< >>, "dict_type")
          [] kind = "list" ->
               IF value.t = "array" THEN ValidateItems(type[2], value.a)
               ELSE ErrorAt(<< >>, "list_type")
          [] kind = "model" -> model_validate_json(Models[type[2]], value)

\* A field the body has no key for: its default when its declaration has
\* one, else a "missing" error at the field.
AbsentAlwaysMissing(field) == ErrorAt(field.alias, "missing")
AbsentNeverMissing(field) ==
    Valid(IF field.default.has THEN field.default.value ELSE JNull)
Absent(field) ==
    IF field.default.has
    THEN Valid(field.default.value)
    ELSE ErrorAt(field.alias, "missing")

\* One field of a class: what an absent field gives when the body has no
\* key for it; else its "before" validator, then its annotation: the first
\* alternative that accepts the value, else the errors of the alternatives
\* other than None, placed at the field.
ValidateField(cls, field, object) ==
    LET got == Lookup(cls, field, object)
        raw == IF field.name \in DOMAIN cls.before
               THEN BeforeValidate(cls.before[field.name], got.value)
               ELSE got.value
        each == [i \in DOMAIN field.types |-> ValidateType(field.types[i], raw)]
        accepting == {i \in DOMAIN field.types : each[i].ok}
    IN  IF ~got.found
        THEN Absent(field)
        ELSE IF accepting # {}
        THEN each[CHOOSE i \in accepting : \A j \in accepting : i <= j]
        ELSE Invalid(Under(field.alias,
                           UNION {each[i].errors :
                                    i \in {j \in DOMAIN field.types :
                                             field.types[j][1] # "none"}}))

\* X.model_validate_json(json_response) for a model X: every field
\* validated, every error collected; keys that are no field of the class are
\* ignored.
model_validate_json(cls, value) ==
    IF value.t # "object"
    THEN ErrorAt(<< >>, "model_type")
    ELSE LET each == [n \in DOMAIN cls.fields |->
                         ValidateField(cls, cls.fields[n], value.o)]
             errors == UNION {each[n].errors : n \in DOMAIN cls.fields}
         IN  IF errors = {}
             THEN Valid([t |-> "model", v |-> cls.name,
                         o |-> [n \in DOMAIN cls.fields |-> each[n].value],
                         a |-> << >>])
             ELSE Invalid(errors)

\* ------------------------------------------------ Timestamp.to_datetime
\* The number a decimal text of the modelled bodies writes.
DecimalOf(v) ==
    CASE v = "0" -> 0
      [] v = "1" -> 1
      [] v = "500" -> 500
      [] v = "1500" -> 1500
      [] v = "901000000" -> 901000000
      [] v = "999999999" -> 999999999
      [] v = "1621674499" -> 1621674499
      [] OTHER -> 0

\* The microsecond counts datetime.fromtimestamp can give for seconds +
\* nanoseconds / 1e9. The sum is a double, spaced 2^-22 s apart below 2^31
\* seconds, so it lies within 120 ns of the exact sum; the fraction is then
\* rounded to the nearest microsecond. A remainder within 120 ns of the
\* half microsecond can go to either neighbour.
MicrosecondsTruncated(nanoseconds) == {nanoseconds \div 1000}
MicrosecondsOf(nanoseconds) ==
    LET whole == nanoseconds \div 1000
        rest == nanoseconds % 1000
    IN  CASE rest <= 380 -> {whole}
          [] rest >= 620 -> {whole + 1}
          [] OTHER -> {whole, whole + 1}

\* Timestamp.to_datetime: the datetimes, as seconds and microseconds from
\* the epoch, that the call can return for a validated Timestamp.
to_datetime(self) ==
    LET seconds == DecimalOf(self.o["seconds"].v)
        nanoseconds == DecimalOf(self.o["nanoseconds"].v)
    IN  {[seconds |-> seconds + (us \div 1000000),
          microsecond |-> us % 1000000] : us \in MicrosecondsOf(nanoseconds)}

\* ------------------------------------------- the bodies the upstream sends
\* A value an alternative accepts, and an object of a class: every field of
\* the class, or only its required fields, each under its alias (or along
\* its path) with such a value.
RECURSIVE SampleOf(_)
RECURSIVE ObjectWith(_, _)
SampleOf(type) ==
    CASE type[1] = "none" -> JNull
      [] type[1] = "str" -> JStr("x")
      [] type[1] = "int" -> JInt("1")
      [] type[1] = "float" -> Json("float", "12.5")
      [] type[1] = "bool" -> Json("bool", "true")
      [] type[1] = "datetime" -> JInt("1609459200000")
      [] type[1] = "enum" -> JStr(CHOOSE m \in Enums[type[2]] : TRUE)
      [] type[1] = "dict" -> JObj(EmptyObject)
      [] type[1] = "list" -> JArr(<< >>)
      [] type[1] = "model" -> ObjectWith(Models[type[2]], FALSE)

\* The object with values[n] under the alias of the field n of a class.
Placed(cls, values) ==
    LET names == DOMAIN values
        plain == {n \in names : Len(cls.fields[n].alias) = 1}
        pathed == names \ plain
        keys == {cls.fields[n].alias[1] : n \in names}
        Direct(k) ==
            IF \E n \in plain : cls.fields[n].alias[1] = k
            THEN values[CHOOSE n \in plain : cls.fields[n].alias[1] = k]
            ELSE JObj(EmptyObject)
        Nested(k) ==
            LET under == {n \in pathed : cls.fields[n].alias[1] = k}
            IN  [p \in {cls.fields[n].alias[2] : n \in under} |->
                    values[CHOOSE n \in under : cls.fields[n].alias[2] = p]]
    IN  JObj([k \in keys |->
                IF Direct(k).t = "object"
                THEN JObj(Merge(Direct(k).o, Nested(k)))
                ELSE Direct(k)])
ObjectWith(cls, every) ==
    Placed(cls, [n \in {m \in DOMAIN cls.fields :
                          every \/ ~cls.fields[m].default.has} |->
                    SampleOf(cls.fields[n].types[1])])

\* The summary class a list endpoint validates, by the detail class of the
\* same entity kind.
SummaryOf ==
    [FermentableDetail |-> "FermentableBase", HopDetail |-> "Hop",
     YeastDetail |-> "Yeast", MiscDetail |-> "Misc",
     RecipeDetail |-> "Recipe", BatchDetail |-> "Batch"]

\* The bodies a class is given: one with its required fields only and one
\* with every field; for a detail class also those of its summary class
\* with the version envelope; each as it is and changed in one field (the
\* field left out, given another value, or given under its Python name
\* instead of its alias); for Timestamp the seconds and nanoseconds of the
\* conversion; and bodies that are no object. objects[<<c, every>>] is the
\* object of the class named c, enums the StrEnum classes.
BodiesOf(name, cls, objects, enums) ==
    LET WithEnvelope(body) ==
            JObj(Merge(body.o, objects[<<"VersionedModel", FALSE>>].o))
        OfKind(field, kind) ==
            {field.types[i][2] :
                i \in {j \in DOMAIN field.types : field.types[j][1] = kind}}
        Sample(type) ==
            CASE type[1] = "model" -> objects[<<type[2], FALSE>>]
              [] type[1] = "enum" -> JStr(CHOOSE m \in enums[type[2]] : TRUE)
              [] OTHER -> SampleOf(<<type[1]>>)
        ValuesFor(field) ==
            {JNull, JStr("x"), JStr("2021-01-01T00:00:00"),
             JInt("1609459200000"), JInt("0"), Json("float", "12.5"),
             Json("bool", "false"), JArr(<< >>), JObj(EmptyObject)}
              \cup UNION {{JStr(m) : m \in enums[e]} : e \in OfKind(field, "enum")}
              \cup {Sample(<<"model", m>>) : m \in OfKind(field, "model")}
              \cup {JArr(<<Sample(IF x \in {"str", "dict"} THEN <<x>>
                                  ELSE <<"model", x>>)>>) :
                      x \in OfKind(field, "list")}
        Without(object, key) == [k \in DOMAIN object \ {key} |-> object[k]]
        With(object, key, value) ==
            [k \in DOMAIN object \cup {key} |->
                IF k = key THEN value ELSE object[k]]
        ChangedIn(body, field) ==
            IF Len(field.alias) = 2
            THEN LET outer == field.alias[1]
                     inner == IF outer \in DOMAIN body.o
                                   /\ body.o[outer].t = "object"
                              THEN body.o[outer].o ELSE EmptyObject
                 IN  {JObj(With(body.o, outer,
                                JObj(Without(inner, field.alias[2]))))}
                       \cup {JObj(With(body.o, outer,
                                       JObj(With(inner, field.alias[2], v)))) :
                               v \in ValuesFor(field)}
                       \cup {JObj(With(body.o, outer, v)) : v \in {JNull, JStr("x")}}
            ELSE {JObj(Without(body.o, field.alias[1]))}
                   \cup {JObj(With(body.o, field.alias[1], v)) :
                           v \in ValuesFor(field)}
                   \cup {JObj(With(Without(body.o, field.alias[1]), field.name,
                                   Sample(field.types[1])))}
        own == {objects[<<name, every>>] : every \in BOOLEAN}
        summary == IF name \in DOMAIN SummaryOf
                   THEN {WithEnvelope(objects[<<SummaryOf[name], every>>]) :
                           every \in BOOLEAN}
                   ELSE {}
        stamps == IF name = "Timestamp"
                  THEN {JObj([_seconds |-> JInt(s), _nanoseconds |-> JInt(n)]) :
                          s \in {"0", "1", "1621674499"},
                          n \in {"0", "1", "500", "1500", "901000000",
                                 "999999999"}}
                  ELSE {}
    IN  own \cup summary \cup stamps
          \cup UNION {ChangedIn(body, cls.fields[n]) :
                        body \in own \cup summary, n \in DOMAIN cls.fields}
          \cup {JNull, JStr("x"), JArr(<< >>)}
Bodies(name) ==
    BodiesOf(name, Models[name],
             [c \in (DOMAIN Models) \X BOOLEAN |-> ObjectWith(Models[c[1]], c[2])],
             Enums)

\* The bodies a list endpoint is given: arrays of at most MaxItems elements,
\* each a record of the class under one of two identities, or no record;
\* and bodies that are no array.
MaxItems == 2
ListBodies(name) ==
    {JArr(a) :
       a \in UNION {[1..n -> {JObj(Merge([_id |-> JStr(id)],
                                         ObjectWith(Models[Lists[name]], FALSE).o)) :
                                id \in {"a", "b"}} \cup {JStr("x")}] :
                      n \in 0..MaxItems}}
      \cup {JNull, JObj(EmptyObject)}

\* ------------------------------------------- validating a response body
\* A client whose facade has a response text to validate.
SchemaInit ==
    /\ tool = IdleTool
    /\ invoked = << >>
    /\ logged = << >>
    /\ sections = << >>
    /\ validator = None
    /\ jsonData = JNull
    /\ parsed = NotParsed
    /\ instant = NoInstant
    /\ queryParams = DefaultQueryParams
    /\ queryOut = NotBuilt
    /\ env = [user_id |-> <<"set">>, api_key |-> <<"set">>, debug |-> PyNone]
    /\ client = [state |-> "ok", error |-> None]
    /\ auth = [user |-> <<"set">>, password |-> <<"set">>]
    /\ call = IdleCall
    /\ sent = << >>
    /\ nCalls = 0
    /\ nRequests = 0
    /\ debugFiles = {}
    /\ caller = "none"
    /\ callerPc = "idle"
    /\ concurrencyLimit = 1
    /\ summaryList = << >>
    /\ taskState = << >>
    /\ permits = 1
    /\ resultSlots = << >>
    /\ hydrate = Pending
    /\ refetch = [k |-> 1, inflight |-> FALSE]
    /\ rows = << >>
    /\ callerError = NoError
    /\ firstFailure = NoError
    /\ overtaken = FALSE

\* A facade method has its response text and is about to validate it as the
\* class of its return type (or a class is about to validate a member).
Receive(name) ==
    /\ validator = None
    /\ validator' = name
    /\ UNCHANGED <<jsonData, parsed, instant, hydrateVars, clientVars,
                   queryVars, serverVars>>

\* X.model_validate_json(json_response) of a detail call, and of any class
\* validated within one.
ParseRecord(body) ==
    /\ validator \in DOMAIN Models
    /\ parsed = NotParsed
    /\ jsonData' = body
    /\ parsed' = ValidateType(<<"model", validator>>, body)
    /\ UNCHANGED <<validator, instant, hydrateVars, clientVars,
                   queryVars, serverVars>>

\* XList.model_validate_json(json_response) of a list call: the body is
\* validated as the list the class is the RootModel of.
ParseList(body) ==
    /\ validator \in DOMAIN Lists
    /\ parsed = NotParsed
    /\ jsonData' = body
    /\ parsed' = ValidateType(<<"list", Lists[validator]>>, body)
    /\ UNCHANGED <<validator, instant, hydrateVars, clientVars,
                   queryVars, serverVars>>

\* timestamp.to_datetime() on a validated Timestamp.
ToDatetime ==
    /\ validator = "Timestamp"
    /\ parsed.ok
    /\ instant = NoInstant
    /\ \E datetime \in to_datetime(parsed.value) : instant' = datetime
    /\ UNCHANGED <<validator, jsonData, parsed, hydrateVars, clientVars,
                   queryVars, serverVars>>

SchemaNext ==
    \/ \E name \in DOMAIN Models \cup DOMAIN Lists : Receive(name)
    \/ \E body \in (IF validator \in DOMAIN Models /\ parsed = NotParsed
                    THEN Bodies(validator) ELSE {}) : ParseRecord(body)
    \/ \E body \in (IF validator \in DOMAIN Lists /\ parsed = NotParsed
                    THEN ListBodies(validator) ELSE {}) : ParseList(body)
    \/ ToDatetime

\* The record schema layer on the bodies of the upstream's responses.
SpecSchema == SchemaInit /\ [][SchemaNext]_vars

\* ----------------------------------------------- server.py: tool handlers
\* The tool handlers that await one client operation, with the operation:
\* the list, detail and inventory update handlers, and the brewtracker and
\* readings handlers.
Handlers ==
    [read_fermentables |-> "get_fermentables_list",
     read_fermentable_detail |-> "get_fermentable_detail",
     read_hops |-> "get_hops_list",
     read_hops_detail |-> "get_hop_detail",
     read_yeasts |-> "get_yeasts_list",
     read_yeasts_detail |-> "get_yeast_detail",
     read_batches_list |-> "get_batches_list",
     read_batch_detail |-> "get_batch_detail",
     read_recipes_list |-> "get_recipes_list",
     read_recipe_detail |-> "get_recipe_detail",
     read_miscs_list |-> "get_miscs_list",
     read_misc_detail |-> "get_misc_detail",
     update_fermentable_inventory_tool |-> "update_fermentable_inventory",
     update_hop_inventory_tool |-> "update_hop_inventory",
     update_misc_inventory_tool |-> "update_misc_inventory",
     update_yeast_inventory_tool |-> "update_yeast_inventory",
     get_batch_brewtracker |-> "get_batch_brewtracker",
     get_batch_last_reading |-> "get_batch_last_reading",
     get_batch_readings_summary |-> "get_batch_readings"]

\* The operations class BrewfatherClient defines.
BrewfatherClient == Methods \cup BatchUpdateMethods

\* update_batch: the dict update_data built from the keyword arguments:
\* status when it is truthy, every other argument when it is not None.
UpdateDataOfAll(arguments) == arguments
update_data(arguments) ==
    [k \in {p \in DOMAIN arguments :
              IF p = "status" THEN Truthy(arguments[p])
              ELSE arguments[p] # PyNone} |-> arguments[k]]

\* logger.exception(...) in the except clause of a handler: one record,
\* with the exception being handled.
NoLogging(records, handler, error) == records
LogException(records, handler, error) ==
    Append(records, [handler |-> handler, error |-> error])

\* The four summaries of inventory_summary in the order it awaits them, and
\* the header of the section of each.
SummaryOrder ==
    <<[summary |-> "get_fermentables_summary", header |-> "Fermentables:"],
      [summary |-> "get_hops_summary", header |-> "Hops:"],
      [summary |-> "get_yeast_summary", header |-> "Yeasts:"],
      [summary |-> "get_miscs_summary", header |-> "Miscellaneous Items:"]>>

\* The response of inventory_summary, as its lines: each section its header
\* and the rows gathered for it, the sections in the order above.
RECURSIVE Rendered(_)
Rendered(gathered) ==
    IF gathered = << >>
    THEN << >>
    ELSE <<Head(gathered).header>> \o Head(gathered).rows
           \o Rendered(Tail(gathered))

\* The arguments the modelled tool calls are given: an identifier; for
\* update_batch the keyword arguments of its signature, of which status,
\* measuredFg and carbonationTemp are given values.
ToolIds == {<<"b1">>}
UpdateBatchArguments ==
    {[p \in {"status", "measuredMashPh", "measuredBoilSize",
             "measuredFirstWortGravity", "measuredPreBoilGravity",
             "measuredPostBoilGravity", "measuredKettleSize", "measuredOg",
             "measuredFermenterTopUp", "measuredBatchSize", "measuredFg",
             "measuredBottlingSize", "carbonationTemp"} |->
         CASE p = "status" -> s
           [] p = "measuredFg" -> fg
           [] p = "carbonationTemp" -> temp
           [] OTHER -> PyNone] :
       s \in {PyNone, << >>, <<"Completed">>},
       fg \in {PyNone, <<"0.0">>, <<"1.012">>},
       temp \in {PyNone, <<"4.0">>}}

\* The errors a client operation raises, and the outcomes of a summary: the
\* rows of its items, or the error of its list request or of a detail fetch.
ClientErrors == FetchErrorKinds \cup {"ConnectError"}
SummaryOutcomes ==
    {[rows |-> r, error |-> NoToolError] :
       r \in {<< >>, <<"row">>, <<"row", "row">>}}
      \cup {[rows |-> << >>, error |-> [kind |-> k, of |-> stage]] :
              k \in FetchErrorKinds, stage \in {"list", "detail"}}

\* The server module is imported: its client is constructed, no tool has
\* been called.
ServerInit ==
    /\ tool = IdleTool
    /\ invoked = << >>
    /\ logged = << >>
    /\ sections = << >>
    /\ env = [user_id |-> <<"set">>, api_key |-> <<"set">>, debug |-> PyNone]
    /\ client = [state |-> "ok", error |-> None]
    /\ auth = [user |-> <<"set">>, password |-> <<"set">>]
    /\ call = IdleCall
    /\ sent = << >>
    /\ nCalls = 0
    /\ nRequests = 0
    /\ debugFiles = {}
    /\ caller = "none"
    /\ callerPc = "idle"
    /\ concurrencyLimit = 1
    /\ summaryList = << >>
    /\ taskState = << >>
    /\ permits = 1
    /\ resultSlots = << >>
    /\ hydrate = Pending
    /\ refetch = [k |-> 1, inflight |-> FALSE]
    /\ rows = << >>
    /\ callerError = NoError
    /\ firstFailure = NoError
    /\ overtaken = FALSE
    /\ queryParams = DefaultQueryParams
    /\ queryOut = NotBuilt
    /\ validator = None
    /\ jsonData = JNull
    /\ parsed = NotParsed
    /\ instant = NoInstant

\* A handler of one client operation is called: inside its try it looks the
\* operation up on brewfather_client and awaits it. An operation the client
\* does not define raises AttributeError there, which the except clause
\* logs and re-raises.
CallTool(handler, id) ==
    /\ tool.pc = "idle"
    /\ IF Handlers[handler] \in BrewfatherClient
       THEN /\ tool' = [tool EXCEPT !.handler = handler, !.id = id,
                          !.pc = "awaiting"]
            /\ invoked' = Append(invoked,
                                 [op |-> Handlers[handler],
                                  id |-> IF Handlers[handler] \in ListMethods
                                         THEN PyNone ELSE id,
                                  data |-> NoArguments])
            /\ logged' = logged
       ELSE /\ tool' = [tool EXCEPT !.handler = handler, !.id = id,
                          !.pc = "raised",
                          !.error = [kind |-> "AttributeError",
                                     of |-> Handlers[handler]]]
            /\ invoked' = invoked
            /\ logged' = LogException(logged, handler, tool'.error)
    /\ UNCHANGED <<sections, hydrateVars, clientVars, queryVars, schemaVars>>

\* update_batch(batch_id, status=..., measured...=...): with an empty
\* update_data it returns at once; else it awaits update_batch_detail.
UpdateBatch(batch_id, arguments) ==
    /\ tool.pc = "idle"
    /\ IF DOMAIN update_data(arguments) = {}
       THEN /\ tool' = [tool EXCEPT !.handler = "update_batch",
                          !.id = batch_id, !.arguments = arguments,
                          !.pc = "returned",
                          !.result = <<"No update parameters provided.">>]
            /\ invoked' = invoked
       ELSE /\ tool' = [tool EXCEPT !.handler = "update_batch",
                          !.id = batch_id, !.arguments = arguments,
                          !.pc = "awaiting"]
            /\ invoked' = Append(invoked,
                                 [op |-> "update_batch_detail", id |-> batch_id,
                                  data |-> update_data(arguments)])
    /\ UNCHANGED <<logged, sections, hydrateVars, clientVars, queryVars,
                   schemaVars>>

\* The awaited client operation returns: the handler formats its text.
ClientReturns ==
    /\ tool.pc = "awaiting"
    /\ tool' = [tool EXCEPT !.pc = "returned", !.result = <<"formatted">>]
    /\ UNCHANGED <<invoked, logged, sections, hydrateVars, clientVars,
                   queryVars, schemaVars>>

\* The awaited client operation raises: except: logger.exception(...); raise
ClientRaises(kind) ==
    /\ tool.pc = "awaiting"
    /\ tool' = [tool EXCEPT !.pc = "raised",
                  !.error = [kind |-> kind, of |-> invoked[Len(invoked)].op]]
    /\ logged' = LogException(logged, tool.handler, tool'.error)
    /\ UNCHANGED <<invoked, sections, hydrateVars, clientVars, queryVars,
                   schemaVars>>

\* inventory_summary() is called.
InventorySummary ==
    /\ tool.pc = "idle"
    /\ tool' = [tool EXCEPT !.handler = "inventory_summary", !.pc = "gathering"]
    /\ UNCHANGED <<invoked, logged, sections, hydrateVars, clientVars,
                   queryVars, schemaVars>>

\* Where inventory_summary is after the try block of a summary: the except
\* clause of the block handles an exception, and the handler goes on.
RaisedOnFailure(outcome) ==
    IF outcome.error = NoToolError THEN "gathering" ELSE "raised"
AfterSummary(outcome) == "gathering"

\* inventory_summary awaits its next summary, in its own try: the rows
\* returned, or on an exception one log record and an empty list.
AwaitSummary(outcome) ==
    /\ tool.pc = "gathering"
    /\ Len(sections) < Len(SummaryOrder)
    /\ LET next == SummaryOrder[Len(sections) + 1] IN
         /\ invoked' = Append(invoked, [op |-> next.summary, id |-> PyNone,
                                        data |-> NoArguments])
         /\ sections' = Append(sections,
                               [header |-> next.header,
                                rows |-> IF outcome.error = NoToolError
                                         THEN outcome.rows ELSE << >>,
                                failed |-> outcome.error # NoToolError])
         /\ logged' = IF outcome.error = NoToolError THEN logged
                      ELSE LogException(logged, tool.handler, outcome.error)
    /\ tool' = [tool EXCEPT !.pc = AfterSummary(outcome),
                  !.error = IF AfterSummary(outcome) = "raised"
                            THEN outcome.error ELSE @]
    /\ UNCHANGED <<hydrateVars, clientVars, queryVars, schemaVars>>

\* inventory_summary has its four lists: it builds and returns the response.
Render ==
    /\ tool.pc = "gathering"
    /\ Len(sections) = Len(SummaryOrder)
    /\ tool' = [tool EXCEPT !.pc = "returned", !.result = Rendered(sections)]
    /\ UNCHANGED <<invoked, logged, sections, hydrateVars, clientVars,
                   queryVars, schemaVars>>

\* mcp.get_context() before the summaries, or ctx.info / ctx.report_progress
\* after them, raises: the outer except clause logs and re-raises.
ContextRaises ==
    /\ tool.pc = "gathering"
    /\ Len(sections) \in {0, Len(SummaryOrder)}
    /\ tool' = [tool EXCEPT !.pc = "raised",
                  !.error = [kind |-> "ContextError", of |-> "ctx"]]
    /\ logged' = LogException(logged, tool.handler, tool'.error)
    /\ UNCHANGED <<invoked, sections, hydrateVars, clientVars, queryVars,
                   schemaVars>>

ServerNext ==
    \/ \E handler \in DOMAIN Handlers, id \in ToolIds : CallTool(handler, id)
    \/ \E batch_id \in ToolIds, arguments \in UpdateBatchArguments :
         UpdateBatch(batch_id, arguments)
    \/ ClientReturns
    \/ \E kind \in ClientErrors : ClientRaises(kind)
    \/ InventorySummary
    \/ \E outcome \in SummaryOutcomes : AwaitSummary(outcome)
    \/ Render
    \/ ContextRaises

\* The tool handlers of the server on a constructed client.
SpecServer == ServerInit /\ [][ServerNext]_vars


\* ------------------------------------------------------------------ claims

\* C1: at every instant of an execution of get_in_batches, the number of
\* detail fetches started and not yet completed is at most concurrencyLimit;
\* for the inventory summary callers it is at most 3.
C1_InFlightBounded ==
    /\ Cardinality(InFlight) <= concurrencyLimit
    /\ caller \in SummaryCallers => Cardinality(InFlight) <= 3

\* A summary caller with 7 items: 3 fetches in flight, the others waiting.
C1_Witness ==
    /\ caller \in SummaryCallers
    /\ Len(summaryList) = 7
    /\ Cardinality(InFlight) = 3
    /\ Cardinality(Queued) = 4

\* C2: when every detail fetch succeeds, get_in_batches returns a list as
\* long as the summary list whose element i is the detail fetched for
\* summaryList[i], whatever the order in which the fetches completed; the
\* rows a summary caller builds from it pair item i with its own detail.
C2_OrderPreserved ==
    /\ hydrate.status = "returned" =>
          /\ Len(hydrate.value) = Len(summaryList)
          /\ \A i \in Indices :
               hydrate.value[i] = Detail(FetchCategory(caller), summaryList[i])
    /\ (caller \in SummaryCallers /\ callerPc = "done") =>
          /\ Len(rows) = Len(summaryList)
          /\ \A i \in Indices :
               rows[i] = Row(summaryList[i], Detail(caller, summaryList[i]))

\* The helper returned 7 details although a later fetch completed first,
\* and the hop summary has built its rows from them.
C2_Witness ==
    /\ hydrate.status = "returned"
    /\ Len(summaryList) = 7
    /\ overtaken
    /\ caller = "hops"
    /\ callerPc = "done"

\* C3: once any detail fetch has failed, get_in_batches has raised: it
\* returns no list, neither a partial one nor one with a placeholder, and
\* its caller builds no row.
C3_FailureRaises ==
    (\E i \in Indices : taskState[i] = "failed") =>
        /\ hydrate.status = "raised"
        /\ hydrate.value = << >>
        /\ callerPc # "done"
        /\ rows = << >>

\* The 4th of 7 fetches failed after the first three succeeded.
C3_Witness ==
    /\ Len(summaryList) = 7
    /\ taskState[4] = "failed"
    /\ \A i \in 1..3 : taskState[i] = "ok"
    /\ hydrate.status = "raised"

\* C4: the error get_in_batches raises is the error of the first detail
\* fetch observed to fail, as that fetch raised it; later failures of its
\* siblings do not replace it and no result is returned with it; the
\* awaiting caller raises that same error.
C4_FirstErrorAsIs ==
    /\ firstFailure # NoError =>
         /\ hydrate.status = "raised"
         /\ hydrate.error = firstFailure
         /\ hydrate.value = << >>
    /\ hydrate.status = "raised" =>
         /\ hydrate.error = firstFailure
         /\ hydrate.error.kind \in FetchErrorKinds
         /\ \E i \in Indices :
              /\ taskState[i] = "failed"
              /\ hydrate.error.id = summaryList[i]
         /\ callerPc = "raised" => callerError = firstFailure

\* Two fetches have failed, the later item's first; another fetch is still
\* in flight, one has succeeded, and the caller has raised.
C4_Witness ==
    /\ hydrate.status = "raised"
    /\ \E i, j \in Indices :
         /\ i # j
         /\ taskState[i] = "failed"
         /\ taskState[j] = "failed"
         /\ hydrate.error.id = summaryList[i]
         /\ j < i
    /\ InFlight # {}
    /\ \E i \in Indices : taskState[i] = "ok"
    /\ callerPc = "raised"

\* C5: a completed fetch, successful or failed, holds no admission slot:
\* the free slots are exactly the limit minus the fetches in flight, and
\* while an item is queued and fewer than concurrencyLimit fetches are in
\* flight, the next queued item can be started.
C5_SlotReleased ==
    /\ permits = concurrencyLimit - Cardinality(InFlight)
    /\ (Queued # {} /\ Cardinality(InFlight) < concurrencyLimit) =>
           ENABLED StartFetch

\* A fetch has failed, another succeeded, and an item is still queued with
\* a slot free for it.
C5_Witness ==
    /\ \E i \in Indices : taskState[i] = "failed"
    /\ \E i \in Indices : taskState[i] = "ok"
    /\ Queued # {}
    /\ Cardinality(InFlight) < concurrencyLimit
    /\ permits > 0

\* C6: for every facade operation, once the upstream has answered the call's
\* request with a status outside 200..299, the call has raised an
\* HTTPStatusError carrying that status, has returned no record, and has
\* issued exactly one HTTP request.
C6_NonSuccessRaisesOnce ==
    /\ call.pc = "awaiting" => Len(sent) = 1
    /\ (call.pc \in {"returned", "raised"}
          /\ (call.status < 200 \/ call.status > 299)) =>
         /\ call.pc = "raised"
         /\ call.error = [kind |-> "HTTPStatusError", status |-> call.status]
         /\ call.result = NoRecord
         /\ Len(sent) = 1
         /\ sent[1].url = call.request.url

\* The second call on the client, a detail call or an update, was answered
\* 302 or 404 and has raised.
C6_Witness ==
    /\ call.pc = "raised"
    /\ call.op \in DetailMethods \cup InventoryUpdateMethods \cup BatchUpdateMethods
    /\ call.status \in {302, 404}
    /\ nCalls = 2

\* The URL /inventory/<category>/<id> under the base URL.
InventoryItemUrl(cat, id) ==
    BASE_URL \o <<"/", "inventory", "/", cat, "/">> \o id

\* What C7 says of one inventory update call.
InventoryUpdateIsOnePatch ==
    /\ Len(sent) = 1
    /\ sent[1].method = "PATCH"
    /\ sent[1].url = InventoryItemUrl(UpdateCategory(call.op), call.args.id)
    /\ sent[1].hasJson
    /\ sent[1].json = {<<"inventory", call.args.inventory>>}
    /\ call.result = NoRecord

\* C7 as stated: for every category, every id and every amount, the
\* inventory update issues exactly one request, a PATCH to
\* /inventory/<category>/<id> with body exactly {"inventory": amount}, no
\* GET, and returns no record.
C7_Original ==
    call.op \in InventoryUpdateMethods => InventoryUpdateIsOnePatch

\* C7 as amended: the same for every non-empty id (an empty id is dropped
\* from the URL, so the PATCH goes to /inventory/<category>).
C7_InventoryUpdateOnePatch ==
    (call.op \in InventoryUpdateMethods /\ call.args.id # << >>) =>
        InventoryUpdateIsOnePatch

\* update_fermentable_inventory("f1", 12.5) answered 2xx has returned.
C7_Witness ==
    /\ call.op = "update_fermentable_inventory"
    /\ call.args.id = <<"f1">>
    /\ call.args.inventory = "12.5"
    /\ call.pc = "returned"
    /\ call.result = NoRecord

\* What C8 says of one update_batch_detail call.
BatchUpdateIsOnePatch ==
    /\ Len(sent) = 1
    /\ sent[1].method = "PATCH"
    /\ sent[1].url = BASE_URL \o <<"/", "batches", "/">> \o call.args.id
    /\ sent[1].hasJson
    /\ sent[1].json = {<<k, call.args.data[k]>> : k \in DOMAIN call.args.data}
    /\ call.result = NoRecord

\* C8 as stated: update_batch_detail(id, data) issues exactly one request,
\* a PATCH to /batches/<id> whose JSON body is the map data unchanged, and
\* returns nothing.
C8_Original ==
    call.op = "update_batch_detail" => BatchUpdateIsOnePatch

\* C8 as amended: the same for every non-empty id.
C8_BatchUpdateOnePatch ==
    (call.op = "update_batch_detail" /\ call.args.id # << >>) =>
        BatchUpdateIsOnePatch

\* update_batch_detail("f1", {status, measuredFg}) answered 2xx has returned.
C8_Witness ==
    /\ call.op = "update_batch_detail"
    /\ call.args.id = <<"f1">>
    /\ DOMAIN call.args.data = {"status", "measuredFg"}
    /\ call.pc = "returned"

\* C9: construction raises a configuration error and yields no client
\* whenever the account identifier or the secret key is missing; it
\* succeeds only when both are present; no HTTP request is issued at
\* construction either way.
C9_CredentialsRequired ==
    /\ (client.state # "unconstructed"
          /\ (env.user_id \in {PyNone, << >>} \/ env.api_key \in {PyNone, << >>})) =>
         /\ client = [state |-> "raised", error |-> "ValueError"]
         /\ auth = NoAuth
    /\ client.state = "ok" =>
         /\ env.user_id \notin {PyNone, << >>}
         /\ env.api_key \notin {PyNone, << >>}
         /\ auth = [user |-> env.user_id, password |-> env.api_key]
    /\ client.state # "ok" => nCalls = 0
    /\ nCalls = 0 => (nRequests = 0 /\ sent = << >>)

\* The account identifier is present but the secret key is not: raised.
C9_Witness ==
    /\ client.state = "raised"
    /\ env.user_id = <<"set">>
    /\ env.api_key = PyNone
    /\ nRequests = 0

\* A field is set when the caller gave it a value; the spec counts a flag
\* as set only when it is true.
FieldSet(field) ==
    IF field \in {"inventory_negative", "complete", "inventory_exists"}
    THEN queryParams[field] = PyTrue
    ELSE queryParams[field] # PyNone

\* A field holds a value Python takes as true: a true flag, a non-zero
\* limit, a non-empty cursor or sort key, a sort direction.
FieldTruthy(field) ==
    /\ FieldSet(field)
    /\ queryParams[field] \notin {<<"0">>, << >>}

\* C10 as stated: with no field set the builder returns None, never an
\* empty string nor one holding '?'; it returns a non-empty string if and
\* only if at least one field is set.
C10_Original ==
    queryOut.pc = "built" =>
        /\ queryOut.qs # << >>
        /\ (queryOut.qs # PyNone) <=> (\E field \in Fields : FieldSet(field))

\* C10 as amended: with no field set the builder returns None, never an
\* empty string nor one holding '?'; it returns a non-empty string if and
\* only if at least one field holds a true flag, a non-zero limit, a
\* non-empty cursor or sort key, or a direction (a limit of 0 or an empty
\* cursor or sort key gives None, like an unset field).
C10_NoneIffNothingEmitted ==
    queryOut.pc = "built" =>
        /\ queryOut.qs # << >>
        /\ (\A field \in Fields : queryParams[field] = PyNone) =>
               queryOut.qs = PyNone
        /\ (queryOut.qs # PyNone) <=> (\E field \in Fields : FieldTruthy(field))
        /\ queryOut.qs # PyNone => \A i \in 1..Len(queryOut.qs) : queryOut.qs[i] # "?"

\* The string was built from an object with no field assigned: None.
C10_Witness ==
    /\ queryOut.pc = "built"
    /\ queryParams = DefaultQueryParams
    /\ queryOut.qs = PyNone

\* ---------------------------------------------------------------- C11
\* The tokens of str before and after the first sep, and whether sep occurs.
Occurs(str, sep) == \E i \in 1..Len(str) : str[i] = sep
FirstOf(str, sep) ==
    CHOOSE i \in 1..Len(str) :
        str[i] = sep /\ \A j \in 1..(i - 1) : str[j] # sep
Before(str, sep) ==
    IF Occurs(str, sep) THEN SubSeq(str, 1, FirstOf(str, sep) - 1) ELSE str
After(str, sep) ==
    IF Occurs(str, sep)
    THEN SubSeq(str, FirstOf(str, sep) + 1, Len(str))
    ELSE << >>

\* The segments a query string holds: its pieces between "&" delimiters.
RECURSIVE SegmentsOf(_)
SegmentsOf(str) ==
    IF Occurs(str, "&")
    THEN <<Before(str, "&")>> \o SegmentsOf(After(str, "&"))
    ELSE <<str>>

\* Decoding of a percent-encoded token, the inverse of QuotePlusToken.
UnquotePlusToken(t) ==
    CASE t = "+" -> " "
      [] t = "%26" -> "&"
      [] t = "%3D" -> "="
      [] t = "%3F" -> "?"
      [] t = "%2F" -> "/"
      [] OTHER -> t
unquote_plus(str) == [i \in 1..Len(str) |-> UnquotePlusToken(str[i])]

\* The (key, value) pairs a query string decodes to: one per non-empty
\* segment, the key before its first "=", the value after it.
DecodedPairs(str) ==
    LET segs == SegmentsOf(str)
    IN  {[key |-> Before(segs[i], "="),
          value |-> unquote_plus(After(segs[i], "="))] :
            i \in {j \in 1..Len(segs) : segs[j] # << >>}}

Flags == {"inventory_negative", "complete", "inventory_exists"}
EmittedFields == {field \in Fields : FieldTruthy(field)}
CountOf(str, t) == Cardinality({i \in 1..Len(str) : str[i] = t})

\* C11 as stated: when several fields are set, the URL of a list call is
\* the endpoint URL, exactly one "?", and one key=value segment per set
\* field, delimited so that the query string decodes to exactly the pairs
\* that were set (limit=50 with the inventory-exists flag gives two
\* distinct parameters).
C11_Original ==
    (queryOut.pc = "built" /\ Cardinality(EmittedFields) >= 2) =>
        /\ CountOf(queryOut.url, "?") = 1
        /\ After(queryOut.url, "?") = queryOut.qs
        /\ LET pairs == DecodedPairs(queryOut.qs)
           IN  /\ Cardinality(pairs) = Cardinality(EmittedFields)
               /\ \A field \in EmittedFields : \E p \in pairs :
                    /\ p.key = <<field>>
                    /\ field \notin Flags => p.value = queryParams[field]

\* ---------------------------------------------------------------- C12
Contains(str, sub) ==
    \E i \in 0..(Len(str) - Len(sub)) :
        SubSeq(str, i + 1, i + Len(sub)) = sub

\* The object with every flag that is not true left unset.
FalseFlagsUnset ==
    [field \in DOMAIN queryParams |->
        IF field \in Flags /\ queryParams[field] = PyFalse
        THEN PyNone ELSE queryParams[field]]

\* C12 as stated: for each of the three flags, a true flag puts the segment
\* key=true in the query string with the literal text "true"; a false or
\* unset flag emits no segment for its key, so a false flag gives the same
\* query string as an unset one.
C12_Original ==
    queryOut.pc = "built" =>
        /\ \A flag \in Flags :
             /\ queryParams[flag] = PyTrue =>
                    Contains(queryOut.qs, <<flag, "=", "true">>)
             /\ queryParams[flag] # PyTrue => ~Occurs(queryOut.qs, flag)
        /\ queryOut.qs = as_query_param_str(FalseFlagsUnset)

\* ------------------------------------------------ claims on the schemas
\* A record class has validated the body it was given.
Validated == validator \in DOMAIN Models /\ parsed # NotParsed

\* The fields a class declares with no default, and with one.
RequiredFields(cls) == {n \in DOMAIN cls.fields : ~cls.fields[n].default.has}
OptionalFields(cls) == {n \in DOMAIN cls.fields : cls.fields[n].default.has}

\* The keys of a body a class reads.
DeclaredKeys(cls) ==
    {cls.fields[n].alias[1] : n \in DOMAIN cls.fields}
      \cup (IF cls.populate_by_name THEN DOMAIN cls.fields ELSE {})

\* The detail classes, and the summary class and the version envelope of
\* the entity kind of the class that validates.
DetailNames == DOMAIN SummaryOf
Summary == Models[SummaryOf[validator]]
Envelope == Models["VersionedModel"]

\* The body is one the summary class of the entity kind accepts, and it
\* carries the version envelope.
SummaryAccepts == model_validate_json(Summary, jsonData).ok
CarriesEnvelope == model_validate_json(Envelope, jsonData).ok

\* The places of the "missing" errors of the validation, and those of them
\* that are a field of the class itself or lie under a key that the
\* summary class reads (the others lie within the value of a key that only
\* the detail class reads).
MissingIn(result) == {e.loc : e \in {x \in result.errors : x.type = "missing"}}
MissingOfDetail(result) ==
    {loc \in MissingIn(result) : Len(loc) = 1 \/ loc[1] \in DeclaredKeys(Summary)}

ExtraRequired(detail) ==
    CASE detail = "FermentableDetail" ->
           {<<"color">>, <<"potential">>, <<"potentialPercentage">>}
      [] detail = "YeastDetail" -> {<<"laboratory">>}
      [] detail = "BatchDetail" -> {<<"recipe", "_id">>}
      [] OTHER -> {}

EnumeratedKinds ==
    {"BatchStatus", "HopUse", "MiscUse", "MashStepType",
     "FermentationStepType", "CarbonationType", "FgFormula"}

\* The enumeration a field is annotated with, if it is one of these.
EnumerationsOf(field) ==
    {field.types[i][2] :
        i \in {j \in DOMAIN field.types : field.types[j][1] = "enum"}}
          \cap EnumeratedKinds

\* The errors of a validation at a field or within its value.
ErrorsAt(result, field) ==
    {e \in result.errors :
        /\ Len(e.loc) >= Len(field.alias)
        /\ SubSeq(e.loc, 1, Len(field.alias)) = field.alias}

\* C14: a field annotated with one of the enumerations (batch status, hop
\* and misc use, mash and fermentation step type, carbonation type, final
\* gravity formula) accepts a string exactly when it is the text of a member
\* of the enumeration; an accepted string is kept as it was given, and any
\* other string is an error at the field: it is not turned into a member or
\* into the default.
C14_EnumeratedLiterals ==
    (Validated /\ jsonData.t = "object") =>
        LET cls == Models[validator]
        IN  \A n \in DOMAIN cls.fields :
              LET field == cls.fields[n]
                  got == Lookup(cls, field, jsonData.o)
              IN  (EnumerationsOf(field) # {} /\ got.found
                     /\ got.value.t = "string") =>
                    \A enum \in EnumerationsOf(field) :
                      /\ got.value.v \in Enums[enum]
                           <=> ErrorsAt(parsed, field) = {}
                      /\ got.value.v \notin Enums[enum] =>
                           /\ ~parsed.ok
                           /\ \E e \in parsed.errors :
                                e.loc = field.alias /\ e.type = "enum"
                      /\ parsed.ok => parsed.value.o[n] = got.value

\* A batch summary whose status is no member of BatchStatus has been
\* rejected with an error at status, although status has a default.
C14_Witness ==
    /\ validator = "Batch"
    /\ jsonData.t = "object"
    /\ "status" \in DOMAIN jsonData.o
    /\ jsonData.o["status"] = JStr("x")
    /\ ~parsed.ok
    /\ parsed.errors = {[loc |-> <<"status">>, type |-> "enum"]}

\* The classes of the records the list and the detail operations return.
ReturnedClasses ==
    DetailNames \cup {SummaryOf[detail] : detail \in DetailNames}

\* C15 as stated: a record of a list or detail operation has an identity
\* that is not null: a body whose _id is null or missing is rejected by the
\* validation, and an accepted record holds a string as its id.
C15_Original ==
    (Validated /\ validator \in ReturnedClasses /\ jsonData.t = "object") =>
        LET cls == Models[validator]
            got == Lookup(cls, cls.fields["id"], jsonData.o)
        IN  /\ (~got.found \/ got.value.t = "null") => ~parsed.ok
            /\ parsed.ok => parsed.value.o["id"].t = "string"

\* C16: for every record class and every field it declares as required,
\* validating a body that has no key for the field fails, with an error of
\* type "missing" whose place is the field (its key in the body); it does
\* not succeed with some default in the field.
C16_MissingRequiredNamed ==
    (Validated /\ jsonData.t = "object") =>
        LET cls == Models[validator]
        IN  \A n \in RequiredFields(cls) :
              ~Lookup(cls, cls.fields[n], jsonData.o).found =>
                  /\ ~parsed.ok
                  /\ parsed.value = JNull
                  /\ [loc |-> cls.fields[n].alias, type |-> "missing"]
                        \in parsed.errors

\* A hop Detail body without alpha has been rejected, the one error naming
\* alpha.
C16_Witness ==
    /\ validator = "HopDetail"
    /\ jsonData.t = "object"
    /\ "alpha" \notin DOMAIN jsonData.o
    /\ "name" \in DOMAIN jsonData.o
    /\ ~parsed.ok
    /\ parsed.errors = {[loc |-> <<"alpha">>, type |-> "missing"]}

\* The date fields, and the classes that declare them.
DateFields == {"best_before_date", "manufacturing_date"}
DeclaresDates(cls) == DateFields \subseteq DOMAIN cls.fields

\* C17 as stated: in every class that declares bestBeforeDate and
\* manufacturingDate (the inventory Detail, recipe and batch variants of
\* fermentable, hop, yeast and misc), a date given as an integer of epoch
\* milliseconds is accepted and the record holds the ISO-8601 string of that
\* date, which is the string the record holds when given that ISO string; a
\* date given as a string is accepted and held unchanged.
C17_Original ==
    (Validated /\ jsonData.t = "object" /\ DeclaresDates(Models[validator])) =>
        LET cls == Models[validator]
        IN  \A n \in DateFields :
              LET got == Lookup(cls, cls.fields[n], jsonData.o)
              IN  /\ (got.found /\ got.value.t = "int") =>
                        /\ ErrorsAt(parsed, cls.fields[n]) = {}
                        /\ parsed.ok =>
                             parsed.value.o[n] = JStr(EpochMsToIso(got.value.v))
                  /\ (got.found /\ got.value.t = "string") =>
                        /\ ErrorsAt(parsed, cls.fields[n]) = {}
                        /\ parsed.ok => parsed.value.o[n] = got.value

\* A list class has validated the body it was given.
ValidatedList == validator \in DOMAIN Lists /\ parsed # NotParsed

\* The class of the records of the list class that validates.
RecordClass == Models[Lists[validator]]

\* C18: a list operation given a response array returns a sequence with as
\* many records as the array has elements, record i being what the record
\* class makes of element i: the order of the response is kept and nothing
\* is dropped or duplicated (an element that is no record fails the whole
\* list); an empty array gives the empty sequence.
C18_ListInResponseOrder ==
    (ValidatedList /\ jsonData.t = "array") =>
        /\ parsed.ok <=>
             \A i \in DOMAIN jsonData.a :
                model_validate_json(RecordClass, jsonData.a[i]).ok
        /\ parsed.ok =>
             /\ parsed.value.t = "array"
             /\ Len(parsed.value.a) = Len(jsonData.a)
             /\ \A i \in DOMAIN jsonData.a :
                  parsed.value.a[i] =
                      model_validate_json(RecordClass, jsonData.a[i]).value
        /\ jsonData.a = << >> => (parsed.ok /\ parsed.value.a = << >>)

\* The hop list has returned two records in the order of the response,
\* the record of identity "b" before that of identity "a".
C18_Witness ==
    /\ validator = "HopList"
    /\ jsonData.t = "array"
    /\ Len(jsonData.a) = 2
    /\ parsed.ok
    /\ Len(parsed.value.a) = 2
    /\ parsed.value.a[1].o["id"] = JStr("b")
    /\ parsed.value.a[2].o["id"] = JStr("a")

\* The fields with a default that a body has no key for.
AbsentFields(cls, body) ==
    {n \in OptionalFields(cls) : ~Lookup(cls, cls.fields[n], body.o).found}

\* The first alternative of the annotation of a field.
KindOf(cls, n) == cls.fields[n].types[1][1]

\* The zeros a numeric default writes, and the booleans.
Zeros == {JInt("0"), Json("float", "0.0")}
False == Json("bool", "false")
True == Json("bool", "true")

\* C19 as stated: a field with a default that the body has no key for is
\* null, and never zero, when it is a number or another scalar; it is false
\* (or null, when declared bool | None = None) when it is a boolean; and it
\* is the empty sequence when it is a list.
C19_Original ==
    (Validated /\ jsonData.t = "object" /\ parsed.ok) =>
        LET cls == Models[validator]
        IN  \A n \in AbsentFields(cls, jsonData) :
              LET v == parsed.value.o[n]
              IN  CASE KindOf(cls, n) \in {"int", "float", "str", "enum",
                                         "datetime", "model"} -> v = JNull
                    [] KindOf(cls, n) = "bool" -> v \in {False, JNull}
                    [] KindOf(cls, n) = "list" -> v = JArr(<< >>)
                    [] OTHER -> v \in {JNull, JObj(EmptyObject)}

\* The numeric fields declared with the default 0 or 0.0.
ZeroByDefault(name) ==
    CASE name = "WaterAdjustment" ->
           {"calcium", "magnesium", "sodium", "chloride", "sulfate",
            "bicarbonate"}
      [] name \in {"HopDetail", "RecipeHop"} -> {"ibu"}
      [] name = "BatchHop" ->
           {"ibu", "removed_amount", "total_cost", "display_amount"}
      [] name = "BatchFermentable" ->
           {"removed_amount", "total_cost", "display_amount"}
      [] name \in {"BatchYeast", "BatchMisc"} -> {"total_cost", "display_amount"}
      [] name = "BrewTrackerStatus" -> {"stage"}
      [] OTHER -> {}

\* The text and enumeration fields declared with a default other than None.
TextByDefault(name) ==
    CASE name = "WaterProfile" -> [type |-> "source"]
      [] name \in {"FermentableDetail", "RecipeFermentable", "BatchFermentable"} ->
           [substitutes |-> "", used_in |-> "", user_notes |-> ""]
      [] name = "HopDetail" ->
           [notes |-> "", substitutes |-> "", used_in |-> "", user_notes |-> ""]
      [] name = "YeastDetail" -> [user_notes |-> ""]
      [] name \in {"RecipeYeast", "BatchYeast"} -> [laboratory |-> ""]
      [] name = "RecipeDetail" -> [type_field |-> "recipe"]
      [] name = "Batch" -> [status |-> "Planning"]
      [] name = "BatchDetail" -> [status |-> "Planning", type_field |-> "batch"]
      [] OTHER -> EmptyObject

\* The booleans declared bool | None = None, and those declared True.
NullBooleans(name) ==
    CASE name \in {"FermentableDetail", "RecipeFermentable", "BatchFermentable"} ->
           {"not_fermentable"}
      [] name \in {"RecipeYeast", "BatchYeast"} -> {"starter"}
      [] name = "RecipeDetail" ->
           {"public", "public_flag", "style_conformity", "manual_fg"}
      [] name = "BrewTrackerStep" -> {"final"}
      [] OTHER -> {}
TrueBooleans(name) ==
    IF name = "BrewTrackerStatus" THEN {"enabled", "notify"} ELSE {}

\* C19 (amended): a field with a default that the body has no key for holds
\* the default of its declaration. A number is null, except the ones declared
\* with 0 (ibu of a hop, the removed amount, total cost and display amount of
\* a batch ingredient, the ions of a water adjustment, the stage of a brew
\* tracker), which are zero; a text or an enumeration is null, except the
\* ones declared with a text (notes and the like "", type "source", the
\* record type "recipe" or "batch", status "Planning"); a boolean is false,
\* except the ones declared bool | None, which are null, and enabled and
\* notify of a brew tracker, which are true; a list is the empty sequence,
\* except tags of a recipe Detail, which is null; a mapping is null or empty.
C19_DeclaredDefaults ==
    (Validated /\ jsonData.t = "object" /\ parsed.ok) =>
        LET cls == Models[validator]
        IN  \A n \in AbsentFields(cls, jsonData) :
              LET v == parsed.value.o[n]
              IN  CASE KindOf(cls, n) \in {"int", "float"} ->
                         IF n \in ZeroByDefault(validator)
                         THEN v \in Zeros
                         ELSE v = JNull
                    [] KindOf(cls, n) \in {"str", "enum"} ->
                         IF n \in DOMAIN TextByDefault(validator)
                         THEN v = JStr(TextByDefault(validator)[n])
                         ELSE v = JNull
                    [] KindOf(cls, n) = "bool" ->
                         IF n \in NullBooleans(validator) THEN v = JNull
                         ELSE IF n \in TrueBooleans(validator) THEN v = True
                         ELSE v = False
                    [] KindOf(cls, n) = "list" ->
                         IF validator = "RecipeDetail" /\ n = "tags"
                         THEN v = JNull
                         ELSE v = JArr(<< >>)
                    [] KindOf(cls, n) = "dict" -> v \in {JNull, JObj(EmptyObject)}
                    [] OTHER -> v = JNull

\* A batch hop with its required fields only: the total cost is 0.0, ibu is
\* 0, the tracking booleans are false and the origin is null.
C19_Witness ==
    /\ validator = "BatchHop"
    /\ jsonData.t = "object"
    /\ parsed.ok
    /\ AbsentFields(Models["BatchHop"], jsonData)
          = OptionalFields(Models["BatchHop"])
    /\ parsed.value.o["total_cost"] = Json("float", "0.0")
    /\ parsed.value.o["ibu"] = JInt("0")
    /\ parsed.value.o["checked"] = False
    /\ parsed.value.o["origin"] = JNull

\* to_datetime has been called on the validated Timestamp.
Converted == validator = "Timestamp" /\ parsed.ok /\ instant # NoInstant

\* The seconds and nanoseconds of the validated Timestamp, and how many
\* nanoseconds the datetime returned lies after the point they name.
SecondsOf == DecimalOf(parsed.value.o["seconds"].v)
NanosecondsOf == DecimalOf(parsed.value.o["nanoseconds"].v)
NanosecondsOff ==
    (instant.seconds - SecondsOf) * 1000000000
      + instant.microsecond * 1000 - NanosecondsOf

\* C20 as stated: to_datetime of {seconds s, nanoseconds n} is the point in
\* time s + n / 10^9 seconds after the epoch.
C20_Original ==
    Converted =>
        /\ instant.seconds = SecondsOf
        /\ instant.microsecond * 1000 = NanosecondsOf

\* C20 (amended): to_datetime of {seconds s, nanoseconds n}, 0 <= s < 2^31
\* and 0 <= n < 10^9, is a datetime of whole microseconds within 620 ns of
\* the point s + n / 10^9 seconds after the epoch: that point itself when n
\* is a whole number of microseconds, so that {1621674499, 901000000} gives
\* 1621674499.901, and else one of the microseconds next to it.
C20_NearestMicrosecond ==
    Converted =>
        /\ NanosecondsOff \in -620..620
        /\ NanosecondsOf % 1000 = 0 => NanosecondsOff = 0
        /\ instant.microsecond \in 0..999999
        /\ (SecondsOf = 1621674499 /\ NanosecondsOf = 901000000) =>
               instant = [seconds |-> 1621674499, microsecond |-> 901000]

\* The Timestamp {1621674499, 901000000} has been converted to
\* 1621674499.901.
C20_Witness ==
    /\ Converted
    /\ jsonData = JObj([_seconds |-> JInt("1621674499"),
                        _nanoseconds |-> JInt("901000000")])
    /\ instant = [seconds |-> 1621674499, microsecond |-> 901000]

\* ---------------------------------------------- claims on the tool handlers
\* C21: for every read_* and update_* handler, when the client operation it
\* awaits has raised, the handler has raised that exception, the log holds
\* exactly one record, which carries that exception, and the handler has
\* returned no text.
C21_RaiseLoggedOnceAndReraised ==
    (/\ tool.handler \in {h \in DOMAIN Handlers :
                            Handlers[h] \in BrewfatherClient} \cup {"update_batch"}
     /\ tool.pc \in {"raised", "returned"}
     /\ tool.error.kind \in ClientErrors)
    => /\ tool.pc = "raised"
       /\ tool.result = << >>
       /\ Len(logged) = 1
       /\ logged[1] = [handler |-> tool.handler, error |-> tool.error]
       /\ tool.error.of = invoked[Len(invoked)].op

C21_Witness ==
    /\ tool.handler = "update_batch"
    /\ tool.pc = "raised"
    /\ tool.error = [kind |-> "HTTPStatusError", of |-> "update_batch_detail"]
    /\ Len(logged) = 1

\* update_batch has issued what the supplied arguments call for: with none
\* supplied no client call and the fixed text; else one update_batch_detail
\* for the batch, its body the supplied arguments with their values.
UpdateIssuedFor(supplied) ==
    IF supplied = {}
    THEN /\ invoked = << >>
         /\ tool.pc = "returned"
         /\ tool.result = <<"No update parameters provided.">>
    ELSE /\ Len(invoked) = 1
         /\ invoked[1].op = "update_batch_detail"
         /\ invoked[1].id = tool.id
         /\ DOMAIN invoked[1].data = supplied
         /\ \A p \in supplied : invoked[1].data[p] = tool.arguments[p]

\* C22 (amended): update_batch issues at most one client update per call;
\* the arguments that count as supplied are a non-empty status and every
\* other argument that is not None. With none of them it issues no update
\* and returns "No update parameters provided."; else it calls
\* update_batch_detail exactly once with exactly those arguments, each under
\* its own name with its value unchanged.
C22_OneUpdateWithSuppliedArguments ==
    tool.handler = "update_batch"
    => UpdateIssuedFor({p \in DOMAIN tool.arguments :
                          /\ tool.arguments[p] # PyNone
                          /\ p = "status" => tool.arguments[p] # << >>})

C22_Witness ==
    /\ tool.handler = "update_batch"
    /\ tool.pc = "returned"
    /\ tool.arguments["status"] = << >>
    /\ tool.arguments["measuredFg"] = <<"0.0">>
    /\ Len(invoked) = 1
    /\ DOMAIN invoked[1].data = {"measuredFg"}

\* C22 as stated: the supplied arguments are all those with a non-None value.
C22_Original ==
    tool.handler = "update_batch"
    => UpdateIssuedFor({p \in DOMAIN tool.arguments :
                          tool.arguments[p] # PyNone})

\* ------------------------------------------- claims on the facade, continued
\* C23: after any sequence of facade calls the number of HTTP requests issued
\* equals the number of facade calls made; each call issues one request of
\* its own, and a returned record is built from the response to that
\* request, a repeated call included.
C23_OneRequestPerCall ==
    /\ nRequests = nCalls
    /\ call.pc # "idle" =>
         /\ Len(sent) = 1
         /\ sent[1].method = call.request.method
         /\ sent[1].url = call.request.url
    /\ (call.pc = "returned" /\ call.request.method = "GET") =>
         /\ call.result.url = sent[1].url
         /\ call.result.model = call.request.model

C23_Witness ==
    /\ nCalls = 2
    /\ nRequests = 2
    /\ call.op = "get_fermentable_detail"
    /\ call.pc = "returned"
    /\ call.result.url = sent[1].url

\* ------------------------------------- claims on the schemas, continued
\* The recipe-context class of each ingredient kind, by its detail class.
RecipeContextOf ==
    [FermentableDetail |-> "RecipeFermentable", HopDetail |-> "RecipeHop",
     YeastDetail |-> "RecipeYeast", MiscDetail |-> "RecipeMisc"]

\* A body with the recipe-specific required fields added: an amount, and a
\* member of the enumeration of use where the class declares one.
WithRecipeFields(cls, object) ==
    [k \in DOMAIN object \cup {"amount"}
             \cup (IF "use" \in DOMAIN cls.fields THEN {"use"} ELSE {}) |->
        CASE k = "amount" -> Json("float", "12.5")
          [] k = "use" /\ "use" \in DOMAIN cls.fields ->
               JStr(CHOOSE m \in Enums[cls.fields["use"].types[1][2]] : TRUE)
          [] OTHER -> object[k]]

\* The outcome of the recipe-context validation of the body the detail
\* class has validated, with the recipe-specific fields added.
InRecipeContext ==
    model_validate_json(
        Models[RecipeContextOf[validator]],
        JObj(WithRecipeFields(Models[RecipeContextOf[validator]], jsonData.o)))

\* C24 as stated: for fermentable, hop, yeast and misc, a body the Detail
\* validation accepts, with amount and usage added, is accepted by the
\* recipe-context validation of the kind, and every field of that class that
\* has a default and no key in the body has its declared default.
C24_Original ==
    (Validated /\ validator \in DOMAIN RecipeContextOf /\ parsed.ok) =>
        /\ InRecipeContext.ok
        /\ \A n \in AbsentFields(Models[RecipeContextOf[validator]],
                                 JObj(WithRecipeFields(
                                        Models[RecipeContextOf[validator]],
                                        jsonData.o))) :
             InRecipeContext.value.o[n]
               = Models[RecipeContextOf[validator]].fields[n].default.value

\* The shapes of the linkage of a batch to its recipe in a body: a recipe
\* object with a name, a recipe object the recipe Detail validation
\* accepts, a recipeId.
NameOnlyReference ==
    /\ "recipe" \in DOMAIN jsonData.o
    /\ jsonData.o["recipe"].t = "object"
    /\ DOMAIN jsonData.o["recipe"].o = {"name"}
    /\ jsonData.o["recipe"].o["name"].t = "string"
EmbeddedRecipeDetail ==
    /\ "recipe" \in DOMAIN jsonData.o
    /\ model_validate_json(Models["RecipeDetail"], jsonData.o["recipe"]).ok
SeparateRecipeId ==
    /\ "recipeId" \in DOMAIN jsonData.o
    /\ jsonData.o["recipeId"].t = "string"

\* C25 as stated: the batch classes accept each of the three shapes of the
\* linkage: the validation of a body with at least one of them, and with
\* nothing else under recipe or recipeId, reports no error at recipe or
\* recipeId; and the record exposes the richest one present: the validated
\* embedded recipe, else the recipeId, else the name.
C25_Original ==
    (/\ Validated
     /\ validator \in {"Batch", "BatchDetail"}
     /\ jsonData.t = "object"
     /\ NameOnlyReference \/ EmbeddedRecipeDetail \/ SeparateRecipeId
     /\ "recipe" \in DOMAIN jsonData.o =>
            NameOnlyReference \/ EmbeddedRecipeDetail
     /\ "recipeId" \in DOMAIN jsonData.o => SeparateRecipeId)
    => /\ \A e \in parsed.errors : e.loc[1] \notin {"recipe", "recipeId"}
       /\ (parsed.ok /\ validator = "BatchDetail") =>
            IF EmbeddedRecipeDetail
            THEN parsed.value.o["recipe"]
                   = model_validate_json(Models["RecipeDetail"],
                                         jsonData.o["recipe"]).value
            ELSE IF SeparateRecipeId
            THEN parsed.value.o["recipe_id"] = jsonData.o["recipeId"]
            ELSE parsed.value.o["recipe_name"] = jsonData.o["recipe"].o["name"]

\* ------------------------------------ claims on the helper, continued
\* The helper and its callers under the scheduling of the event loop: a
\* task that can acquire a slot does so, and every started detail fetch
\* completes, by success or by failure.
SpecHydrateFair ==
    /\ SpecHydrate
    /\ WF_vars(StartFetch)
    /\ \A i \in 1..MaxLen :
         WF_vars(CompleteFetchOk(i)
                   \/ \E kind \in FetchErrorKinds : CompleteFetchFail(i, kind))

\* C26: for every concurrencyLimit >= 1 and every summary list, when every
\* started detail fetch completes, hydrate completes, by returning or by
\* raising, and no item stays queued; for the empty list it has returned
\* the empty sequence with no fetch started.
C26_HydrateCompletes ==
    /\ <>(hydrate.status # "pending")
    /\ <>(Queued = {} /\ InFlight = {})
    /\ [](summaryList = << >> =>
            /\ hydrate = [status |-> "returned", value |-> << >>,
                          error |-> NoError]
            /\ permits = concurrencyLimit)

C26_Witness ==
    /\ caller = "direct"
    /\ concurrencyLimit = 2
    /\ Len(summaryList) = MaxLen
    /\ hydrate.status = "raised"
    /\ Queued = {}
    /\ InFlight = {}
    /\ \E i \in Indices : taskState[i] = "ok"

\* The detail fetches a summary caller has issued so far: those the helper
\* started, and those the caller awaited itself, outside the helper.
FetchesThroughHelper == Cardinality({i \in Indices : taskState[i] # "queued"})
FetchesOutsideHelper == (refetch.k - 1) + (IF refetch.inflight THEN 1 ELSE 0)

\* C27 as stated: each of the four summary operations, on the N items its
\* list request returned, issues one detail fetch per item, N in total, all
\* of them through the helper: no more than 3 are in flight, none is issued
\* outside the helper, and no item is fetched twice.
C27_Original ==
    caller \in SummaryCallers =>
        /\ Cardinality(InFlight) + (IF refetch.inflight THEN 1 ELSE 0) <= 3
        /\ FetchesOutsideHelper = 0
        /\ callerPc = "done" =>
             FetchesThroughHelper + FetchesOutsideHelper = Len(summaryList)

\* ------------------------------------- claims on the query, continued
\* C28 as stated: the URL a list call builds from a Query Specification
\* object never ends in "?" and, when no field of the object produces a
\* segment, holds no text in place of the query string: it is the endpoint
\* URL, the one built when no object is passed.
C28_Original ==
    queryOut.pc = "built" =>
        /\ queryOut.url[Len(queryOut.url)] # "?"
        /\ queryOut.qs = PyNone =>
             /\ ~Occurs(queryOut.url, "None")
             /\ queryOut.url
                  \in {_build_url(endpoint, PyNone, NoQueryParams) :
                         endpoint \in {<<"batches">>, InventoryEndpoint("hops")}}

\* ------------------------------------ claims on the tool handlers, continued
\* The headers among the lines of a response, in their order.
HeadersOf(lines) ==
    SelectSeq(lines, LAMBDA l : l \in {SummaryOrder[i].header :
                                         i \in DOMAIN SummaryOrder})

\* C29: inventory_summary awaits the four summaries in the order
\* fermentables, hops, yeasts, miscellaneous, each whether or not an earlier
\* one failed; a failure of a summary does not make the tool raise; the
\* response holds the four section headers in that order, and the section
\* of a category whose summary failed has no rows.
C29_CategoriesIndependent ==
    tool.handler = "inventory_summary" =>
        /\ Len(invoked) = Len(sections)
        /\ \A i \in DOMAIN invoked :
             invoked[i].op = <<"get_fermentables_summary", "get_hops_summary",
                               "get_yeast_summary", "get_miscs_summary">>[i]
        /\ \A i \in DOMAIN sections :
             sections[i].failed => sections[i].rows = << >>
        /\ tool.pc = "raised" => tool.error.kind = "ContextError"
        /\ tool.pc = "returned" =>
             /\ Len(sections) = 3 + 1
             /\ HeadersOf(tool.result) = <<"Fermentables:", "Hops:", "Yeasts:",
                                           "Miscellaneous Items:">>
             /\ tool.result = Rendered(sections)
        /\ (tool.pc = "gathering" /\ Len(sections) < 3 + 1) =>
             \A outcome \in SummaryOutcomes : ENABLED AwaitSummary(outcome)

C29_Witness ==
    /\ tool.handler = "inventory_summary"
    /\ tool.pc = "returned"
    /\ sections[1].failed
    /\ sections[3].failed
    /\ sections[2].rows = <<"row", "row">>
    /\ tool.result = <<"Fermentables:", "Hops:", "row", "row", "Yeasts:",
                       "Miscellaneous Items:">>
    /\ Len(logged) = 2

\* C30 as stated: every client operation a tool handler awaits is an
\* operation BrewfatherClient defines, so that every handler, those of
\* get_batch_brewtracker, get_batch_last_reading and
\* get_batch_readings_summary included, reaches the client and, when the
\* client operation returns, returns its text; a handler raises only when
\* the client operation has raised.
C30_Original ==
    tool.handler \in DOMAIN Handlers =>
         /\ Handlers[tool.handler] \in BrewfatherClient
         /\ Len(invoked) = 1
         /\ invoked[1].op = Handlers[tool.handler]
         /\ tool.pc = "raised" => tool.error.kind \in ClientErrors
         /\ tool.pc = "returned" => tool.result = <<"formatted">>
=============================================================================
